---- MODULE Spec2Model ----
(***************************************************************************)
(* hextorus: the morph-and-coordinate engine of torusUtils.js.             *)
(*                                                                         *)
(* The library is a set of pure functions over JavaScript numbers.  The    *)
(* model computes them in exact arithmetic over the numbers the functions  *)
(* produce on lattice inputs: a number is a rational combination of        *)
(*     1, sqrt3, pi, sqrt3*pi, cos(1), sqrt3*cos(1), sin(1), sqrt3*sin(1)  *)
(* kept as nine integers <<n1,..,n8,d>> (eight numerators over one         *)
(* positive denominator, in lowest terms, so equal reals are equal         *)
(* tuples).  Math.sin and Math.cos are evaluated exactly, at the angles    *)
(* k*pi/6 + n (n in -1..1 radian) that the inputs below produce.           *)
(* Rounding of IEEE doubles is outside the model.                          *)
(***************************************************************************)
EXTENDS Integers, Sequences, FiniteSets, TLC

\* call: the library call that has just returned (its function, arguments
\* and result); prev: the call before it, when the two belong together
VARIABLES
  call, prev,   \* the library call under observation and the one before it
  main,         \* the module-level state of main.js
  frame,        \* what the last run of animate() computed
  event,        \* the last handler that ran
  restarted     \* whether onRestart ran since the last run of animate()

callVars == <<call, prev>>
animVars == <<main, frame, event, restarted>>
vars == <<call, prev, main, frame, event, restarted>>

(***************************************************************************)
(* Exact numbers                                                           *)
(***************************************************************************)
\* gcd of |a| and b, for b >= 0
RECURSIVE GCD(_, _)
GCD(a, b) == IF b = 0 THEN (IF a < 0 THEN -a ELSE a) ELSE GCD(b, a % b)

\* gcd of the absolute values of the first i entries of a tuple
RECURSIVE GCDUpTo(_, _)
GCDUpTo(t, i) == IF i = 0 THEN 0 ELSE GCD(t[i], GCDUpTo(t, i - 1))

\* gcd of the absolute values of the nine entries of a tuple
GCD9(t) == GCDUpTo(t, 9)

\* every entry of a tuple divided by s
DivideBy(t, s) ==
  <<t[1] \div s, t[2] \div s, t[3] \div s, t[4] \div s,
    t[5] \div s, t[6] \div s, t[7] \div s, t[8] \div s, t[9] \div s>>

\* g with the sign of d
SignedAs(d, g) == IF d < 0 THEN -g ELSE g

\* lowest terms, positive denominator
Norm(t) == DivideBy(t, SignedAs(t[9], GCD9(t)))

\* (a + b*sqrt3)/d
Q3(a, b, d) == Norm(<<a, b, 0, 0, 0, 0, 0, 0, d>>)
Rat(a, d) == Norm(<<a, 0, 0, 0, 0, 0, 0, 0, d>>)
Num(a) == <<a, 0, 0, 0, 0, 0, 0, 0, 1>>
Zero == <<0, 0, 0, 0, 0, 0, 0, 0, 1>>
One == <<1, 0, 0, 0, 0, 0, 0, 0, 1>>
Half == <<1, 0, 0, 0, 0, 0, 0, 0, 2>>
\* (a + b*sqrt3)*pi/d
PiQ3(a, b, d) == Norm(<<0, 0, a, b, 0, 0, 0, 0, d>>)

IsScalar(x) == x[3] = 0 /\ x[4] = 0 /\ x[5] = 0 /\ x[6] = 0 /\ x[7] = 0 /\ x[8] = 0
IsPiMultiple(x) == x[1] = 0 /\ x[2] = 0 /\ x[5] = 0 /\ x[6] = 0 /\ x[7] = 0 /\ x[8] = 0

Neg(x) == <<-x[1], -x[2], -x[3], -x[4], -x[5], -x[6], -x[7], -x[8], x[9]>>

Add(x, y) ==
  Norm(<<x[1] * y[9] + y[1] * x[9], x[2] * y[9] + y[2] * x[9],
         x[3] * y[9] + y[3] * x[9], x[4] * y[9] + y[4] * x[9],
         x[5] * y[9] + y[5] * x[9], x[6] * y[9] + y[6] * x[9],
         x[7] * y[9] + y[7] * x[9], x[8] * y[9] + y[8] * x[9],
         x[9] * y[9]>>)

Sub(x, y) == Add(x, Neg(y))

\* x times the scalar (a + b*sqrt3)/d
Scale(x, a, b, d) ==
  Norm(<<x[1] * a + 3 * x[2] * b, x[1] * b + x[2] * a,
         x[3] * a + 3 * x[4] * b, x[3] * b + x[4] * a,
         x[5] * a + 3 * x[6] * b, x[5] * b + x[6] * a,
         x[7] * a + 3 * x[8] * b, x[7] * b + x[8] * a,
         x[9] * d>>)

\* (scalar*pi)/pi: the pi part moved to the plain part
OverPi(x) == <<x[3], x[4], 0, 0, 0, 0, 0, 0, x[9]>>

\* The product, for the operand shapes the library multiplies: anything by
\* a scalar, and a scalar by a multiple of pi.  Other products leave the
\* number system and are reported as the string "outside".
Mul(x, y) ==
  LET s == IF IsScalar(y) THEN y ELSE x
      o == IF IsScalar(y) THEN x ELSE y
  IN  IF IsScalar(s) THEN Scale(o, s[1], s[2], s[9]) ELSE "outside"

\* 1/((a + b*sqrt3)/d) = d*(a - b*sqrt3)/(a^2 - 3*b^2), and d/a when b = 0
Inv(y) ==
  Norm(IF y[2] = 0 THEN <<y[9], 0, 0, 0, 0, 0, 0, 0, y[1]>>
       ELSE <<y[9] * y[1], -(y[9] * y[2]), 0, 0, 0, 0, 0, 0,
              y[1] * y[1] - 3 * y[2] * y[2]>>)

\* The quotient: by a nonzero scalar, or of two multiples of pi.
Div(x, y) ==
  IF y = Zero THEN "outside"
  ELSE IF IsScalar(y) \/ (IsPiMultiple(y) /\ IsPiMultiple(x))
       THEN Mul(IF IsScalar(y) THEN x ELSE OverPi(x),
                Inv(IF IsScalar(y) THEN y ELSE OverPi(y)))
  ELSE "outside"

\* sign of the integer combination a + b*sqrt3
SgnInt(a, b) ==
  IF a >= 0 /\ b >= 0 THEN (IF a = 0 /\ b = 0 THEN 0 ELSE 1)
  ELSE IF a <= 0 /\ b <= 0 THEN -1
  ELSE IF a > 0 THEN (IF a * a > 3 * b * b THEN 1 ELSE -1)
  ELSE (IF 3 * b * b > a * a THEN 1 ELSE -1)

Sgn(x) == SgnInt(x[1], x[2])
Lt(x, y) == Sgn(Sub(x, y)) < 0
Le(x, y) == Sgn(Sub(x, y)) <= 0

\* largest k with k*k <= n
ISqrt(n) == CHOOSE k \in 0..n : k * k <= n /\ (k + 1) * (k + 1) > n

\* floor of m/d for d > 0 (TLA+ \div rounds down)
\* Math.floor of a scalar: floor((a + b*sqrt3)/d) = floor((a + floor(b*sqrt3))/d)
Floor(x) ==
  LET fb == IF x[2] >= 0 THEN ISqrt(3 * x[2] * x[2])
            ELSE -(ISqrt(3 * x[2] * x[2])) - 1
  IN  (x[1] + fb) \div x[9]

\* truncation toward zero, the integer part JavaScript's % removes
Trunc(x) == IF Sgn(x) >= 0 THEN Floor(x) ELSE -Floor(Neg(x))

\* JavaScript a % m on scalars: a - m*trunc(a/m), the sign of a
JsRem(a, m) == Sub(a, Mul(m, Num(Trunc(Div(a, m)))))

(***************************************************************************)
(* Math.cos and Math.sin at k*pi/6 + n radians, n in -1..1                 *)
(***************************************************************************)
Sqrt3 == <<0, 1, 0, 0, 0, 0, 0, 0, 1>>
Pi == <<0, 0, 1, 0, 0, 0, 0, 0, 1>>

\* cos(k*pi/6), k in 0..11
\* as (a + b*sqrt3)/2
CosTable ==
  <<<<2, 0>>, <<0, 1>>, <<1, 0>>, <<0, 0>>, <<-1, 0>>, <<0, -1>>,
    <<-2, 0>>, <<0, -1>>, <<-1, 0>>, <<0, 0>>, <<1, 0>>, <<0, 1>>>>

\* an angle the tables cover: (k/6)*pi + n with integers k and n in -1..1
IsAngle(x) ==
  /\ x[2] = 0 /\ x[4] = 0 /\ x[5] = 0 /\ x[6] = 0 /\ x[7] = 0 /\ x[8] = 0
  /\ x[1] % x[9] = 0 /\ x[1] \div x[9] \in -1..1
  /\ (6 * x[3]) % x[9] = 0

AngleK(x) == ((6 * x[3]) \div x[9]) % 12
AngleN(x) == x[1] \div x[9]

CosPi6(k) == CosTable[(k % 12) + 1]
SinPi6(k) == CosTable[((k + 9) % 12) + 1]

\* c*cos(n) + s*sin(n) for c = (c[1] + c[2]*sqrt3)/2, s likewise, n in -1..1
CosSinRad(c, s, n) ==
  Norm(IF n = 0 THEN <<c[1], c[2], 0, 0, 0, 0, 0, 0, 2>>
       ELSE <<0, 0, 0, 0, c[1], c[2], n * s[1], n * s[2], 2>>)

\* cos(a + n) = cos a cos n - sin a sin n
Cos(x) ==
  IF IsAngle(x)
  THEN LET sin == SinPi6(AngleK(x))
       IN  CosSinRad(CosPi6(AngleK(x)), <<-sin[1], -sin[2]>>, AngleN(x))
  ELSE "outside"

\* sin(a + n) = sin a cos n + cos a sin n
Sin(x) ==
  IF IsAngle(x)
  THEN CosSinRad(SinPi6(AngleK(x)), CosPi6(AngleK(x)), AngleN(x))
  ELSE "outside"

TwoPi == <<0, 0, 2, 0, 0, 0, 0, 0, 1>>

\* Math.tan, as the quotient the library's one use of it needs
Tan(x) == Div(Sin(x), Cos(x))

(***************************************************************************)
(* rotate2d                                                                *)
(***************************************************************************)
\* The map callback.  With theta = atan2(y, x) and rho = hypot(x, y),
\* rho*cos(theta) = x and rho*sin(theta) = y, so by the addition theorems
\* rho*cos(theta + alpha) = x*cos(alpha) - y*sin(alpha) and
\* rho*sin(theta + alpha) = x*sin(alpha) + y*cos(alpha).
RotatedPoint(pt, alpha) ==
  <<Sub(Mul(pt[1], Cos(alpha)), Mul(pt[2], Sin(alpha))),
    Add(Mul(pt[1], Sin(alpha)), Mul(pt[2], Cos(alpha)))>>

rotate2d(p, alpha) == [i \in 1..Len(p) |-> RotatedPoint(p[i], alpha)]

(***************************************************************************)
(* gridNodes                                                               *)
(***************************************************************************)
\* Node b of ring a (the body of the inner loop).  With c = b % a the code
\* takes theta = atan(sqrt3*c/(2a-c)) + pi*(b-c)/(3a) and
\* r = sqrt((a-c)^2 + a*c).  Since 2a-c > 0 and (2a-c)^2 + 3c^2 = 4r^2,
\* r*cos(atan(..)) = (2a-c)/2 and r*sin(atan(..)) = sqrt3*c/2 exactly; the
\* second summand psi is a multiple of pi/3, so r*cos(theta) and
\* r*sin(theta) follow by the addition theorems.
GridNode(a, b) ==
  LET c == b % a
      psi == Div(Mul(Pi, Num(b - c)), Num(3 * a))
      rcos == Rat(2 * a - c, 2)
      rsin == Q3(0, c, 2)
  IN  <<Sub(Mul(rcos, Cos(psi)), Mul(rsin, Sin(psi))),
        Add(Mul(rcos, Sin(psi)), Mul(rsin, Cos(psi)))>>

\* Faulty variant: every ring takes the index count of the outermost ring.
BArrayOuter(a, nRings) ==
  LET nIndTot == 6 * nRings
  IN  [i \in 1..nIndTot |-> i - 1]

\* bArray: the indices 0 .. 6a-1 of ring a (both arms of the conditional
\* have length 6a when they are taken)
BArray(a, nRings) ==
  LET nIndTot == 6 * nRings
      len == IF nIndTot = 0 \/ a # nRings THEN 6 * a ELSE nIndTot
  IN  [i \in 1..len |-> i - 1]

RingNodes(a, nRings) ==
  LET bArray == BArray(a, nRings)
  IN  [i \in 1..Len(bArray) |-> GridNode(a, bArray[i])]

\* the outer loop, for (a = 1; a <= nRings; a++)
RECURSIVE GridRings(_, _, _)
GridRings(a, nRings, points) ==
  IF a <= nRings
  THEN GridRings(a + 1, nRings, points \o RingNodes(a, nRings))
  ELSE points

\* Faulty variant: the points array is kept between calls, so a call right
\* after another gridNodes call appends to its result.
gridNodesSharedPoints(nRings) ==
  GridRings(1, nRings, IF call.fn = "gridNodes" THEN call.ret ELSE <<<<Zero, Zero>>>>)

gridNodes(nRings) == GridRings(1, nRings, <<<<Zero, Zero>>>>)

(***************************************************************************)
(* euclidean2torus                                                         *)
(***************************************************************************)
\* Faulty variant: t2 = y/r, the division of r by 2 left out.
TorusPhaseFullR(pt, r) ==
  LET x == pt[1]
      y == pt[2]
      t1 == Sub(x, Div(y, r))
      t2 == Div(y, r)
      t3 == Neg(Add(t1, t2))
  IN  <<Mul(Mul(Num(2), Pi), t1), Mul(Mul(Num(2), Pi), t2),
        Mul(Mul(Num(2), Pi), t3)>>

\* Faulty variant: the phases wrapped into [-pi, pi).
TorusPhaseWrapped(pt, r) ==
  LET x == pt[1]
      y == pt[2]
      t1 == Sub(x, Div(y, r))
      t2 == Div(y, Div(r, Num(2)))
      t3 == Neg(Add(t1, t2))
      Wrap(t) ==
        LET a == Add(Mul(TwoPi, t), Pi)
            rem == Sub(a, Mul(TwoPi, Num(Floor(Div(a, TwoPi)))))
        IN  Sub(rem, Pi)
  IN  <<Wrap(t1), Wrap(t2), Wrap(t3)>>

\* the map callback, r = Math.tan(Math.PI/3)
TorusPhase(pt, r) ==
  LET x == pt[1]
      y == pt[2]
      t1 == Sub(x, Div(y, r))
      t2 == Div(y, Div(r, Num(2)))
      t3 == Neg(Add(t1, t2))
  IN  <<Mul(Mul(Num(2), Pi), t1), Mul(Mul(Num(2), Pi), t2),
        Mul(Mul(Num(2), Pi), t3)>>

euclidean2torus(pEuclidean) ==
  LET r == Tan(Div(Pi, Num(3)))
  IN  [i \in 1..Len(pEuclidean) |-> TorusPhase(pEuclidean[i], r)]

(***************************************************************************)
(* wrapToRhombus, buildRhombusMeshGrid                                     *)
(***************************************************************************)
\* Faulty variant: the plain remainder a % m, negative for negative a.
modRemainder(a, m) == JsRem(a, m)

\* Positive modulo helper: ((a % m) + m) % m
mod(a, m) == JsRem(Add(JsRem(a, m), m), m)

\* Faulty variant: the half-cell shift of x per row (nYCycles * 0.5) left out.
wrapNoRowShift(pt) ==
  LET x0 == pt[1]
      y0 == pt[2]
      r == Sqrt3
      halfR == Div(r, Num(2))
      nYCycles == Floor(Div(y0, halfR))
      yW == Sub(y0, Mul(Num(nYCycles), halfR))
      xShift == mod(Div(yW, r), One)
      xBase == x0
      xW == Add(mod(Sub(xBase, xShift), One), xShift)
  IN  <<xW, yW>>

\* Faulty variant: xShift not added back after the modulo.
wrapNoShiftBack(pt) ==
  LET x0 == pt[1]
      y0 == pt[2]
      r == Sqrt3
      halfR == Div(r, Num(2))
      nYCycles == Floor(Div(y0, halfR))
      yW == Sub(y0, Mul(Num(nYCycles), halfR))
      xShift == mod(Div(yW, r), One)
      xBase == Add(x0, Mul(Num(nYCycles), Half))
      xW == mod(Sub(xBase, xShift), One)
  IN  <<xW, yW>>

\* Faulty variant: y wrapped by the full period sqrt3 with the x shift of a
\* half period per cycle.
wrapFullRowPeriod(pt) ==
  LET x0 == pt[1]
      y0 == pt[2]
      r == Sqrt3
      nYCycles == Floor(Div(y0, r))
      yW == Sub(y0, Mul(Num(nYCycles), r))
      xShift == mod(Div(yW, r), One)
      xBase == Add(x0, Mul(Num(nYCycles), Half))
      xW == Add(mod(Sub(xBase, xShift), One), xShift)
  IN  <<xW, yW>>

wrapToRhombus(pt) ==
  LET x0 == pt[1]
      y0 == pt[2]
      r == Sqrt3
      halfR == Div(r, Num(2))
      nYCycles == Floor(Div(y0, halfR))
      yW == Sub(y0, Mul(Num(nYCycles), halfR))
      xShift == mod(Div(yW, r), One)
      xBase == Add(x0, Mul(Num(nYCycles), Half))
      xW == Add(mod(Sub(xBase, xShift), One), xShift)
  IN  <<xW, yW>>

\* Faulty variant: the step taken as 1/(N+1) of the period.
PhaseCoordsShortStep(N) ==
  [k \in 1..((N + 1) * (N + 1)) |->
     LET i == (k - 1) % (N + 1)
         j == (k - 1) \div (N + 1)
     IN  <<Mul(Sub(Div(Num(i), Num(N + 1)), Half), TwoPi),
           Mul(Sub(Div(Num(j), Num(N + 1)), Half), TwoPi)>>]

\* phaseCoords in push order: j is the outer loop, i the inner one
PhaseCoords(N) ==
  [k \in 1..((N + 1) * (N + 1)) |->
     LET i == (k - 1) % (N + 1)
         j == (k - 1) \div (N + 1)
     IN  <<Mul(Sub(Div(Num(i), Num(N)), Half), TwoPi),
           Mul(Sub(Div(Num(j), Num(N)), Half), TwoPi)>>]

EuclidCoords(phaseCoords) ==
  [k \in 1..Len(phaseCoords) |->
     LET t1 == phaseCoords[k][1]
         t2 == phaseCoords[k][2]
     IN  <<Add(Div(t1, TwoPi), Div(Mul(Half, t2), TwoPi)),
           Mul(Div(Sqrt3, Num(2)), Div(t2, TwoPi))>>]

buildRhombusMeshGrid(numRings) ==
  LET phaseCoords == PhaseCoords(numRings)
  IN  [phaseCoords |-> phaseCoords, euclidCoords |-> EuclidCoords(phaseCoords)]

(***************************************************************************)
(* constrainedDelaunay                                                     *)
(***************************************************************************)
\* an omitted argument
Undefined == <<>>
OrDefault(arg, default) == IF arg = Undefined THEN default ELSE arg

\* a JavaScript array read, arr[idx] with idx counted from 0
JsAt(arr, idx) == arr[idx + 1]

\* tol = 1e-6
TolDenominator == 1000000
DefaultTol == Rat(1, TolDenominator)

\* Math.hypot(dx, dy) is kept as its square dx^2 + dy^2 (the lengths here
\* are roots of rationals); Math.max and <= are evaluated on the squares.
HypotSq(dx, dy) == Add(Mul(dx, dx), Mul(dy, dy))
MaxSq(a, b, c) ==
  LET ab == IF Lt(a, b) THEN b ELSE a
  IN  IF Lt(ab, c) THEN c ELSE ab

\* p1/q1 <= p2/q2 for p >= 0, q > 0, by comparing continued fractions
\* (no product of two large integers is formed)
RECURSIVE FracLe(_, _, _, _)
FracLe(p1, q1, p2, q2) ==
  IF p1 \div q1 # p2 \div q2 THEN p1 \div q1 < p2 \div q2
  ELSE IF p1 % q1 = 0 THEN TRUE
  ELSE IF p2 % q2 = 0 THEN FALSE
  ELSE FracLe(q2, p2 % q2, q1, p1 % q1)

\* sqrt(sq) <= limit for rationals sq >= 0 and limit:
\* false for limit < 0, and sq/limit <= limit for limit > 0
RootLe(sq, limit) ==
  IF Sgn(limit) < 0 THEN FALSE
  ELSE IF limit = Zero THEN sq = Zero
  ELSE LET q == Div(sq, limit)
       IN  FracLe(q[1], q[9], limit[1], limit[9])

\* twice the signed area of the triangle a, b, c
Orient(a, b, c) ==
  Sub(Mul(Sub(b[1], a[1]), Sub(c[2], a[2])),
      Mul(Sub(b[2], a[2]), Sub(c[1], a[1])))

\* d lies strictly inside the circle through a, b, c
InCircle(a, b, c, d) ==
  LET ax == Sub(a[1], d[1])
      ay == Sub(a[2], d[2])
      bx == Sub(b[1], d[1])
      by == Sub(b[2], d[2])
      cx == Sub(c[1], d[1])
      cy == Sub(c[2], d[2])
      det == Add(Add(Mul(HypotSq(ax, ay), Sub(Mul(bx, cy), Mul(by, cx))),
                     Mul(HypotSq(bx, by), Sub(Mul(cx, ay), Mul(cy, ax)))),
                 Mul(HypotSq(cx, cy), Sub(Mul(ax, by), Mul(ay, bx))))
  IN  Sgn(det) * Sgn(Orient(a, b, c)) > 0

\* The Delaunay triangles of P as sets of 0-based indices: the proper
\* triangles whose circumcircle holds no other point of P.  (For points in
\* general position, the only inputs below, this is the triangulation.)
DelaunayTriangles(P) ==
  LET idx == 0..(Len(P) - 1)
  IN  {T \in SUBSET idx :
         /\ Cardinality(T) = 3
         /\ \E i, j, k \in T :
              /\ i < j /\ j < k
              /\ Orient(JsAt(P, i), JsAt(P, j), JsAt(P, k)) # Zero
              /\ \A m \in idx \ T :
                   ~InCircle(JsAt(P, i), JsAt(P, j), JsAt(P, k), JsAt(P, m))}

\* Delaunator.from(P).triangles: a flat array of 0-based indices, three per
\* triangle.  The library fixes the order of the triangles and the vertex
\* each starts from; every such order is an output here.
DelaunatorFrom(P) ==
  LET tris == DelaunayTriangles(P)
      m == Cardinality(tris)
  IN  {flat \in [1..(3 * m) -> 0..(Len(P) - 1)] :
         /\ \A t \in 0..(m - 1) :
              {flat[3 * t + 1], flat[3 * t + 2], flat[3 * t + 3]} \in tris
         /\ \A t, u \in 0..(m - 1) :
              t # u => {flat[3 * t + 1], flat[3 * t + 2], flat[3 * t + 3]}
                       # {flat[3 * u + 1], flat[3 * u + 2], flat[3 * u + 3]}}

\* step 1: the raw triangles with 1-based indices
RawTris(triangles) ==
  [t \in 1..(Len(triangles) \div 3) |->
     <<JsAt(triangles, 3 * (t - 1)) + 1,
       JsAt(triangles, 3 * (t - 1) + 1) + 1,
       JsAt(triangles, 3 * (t - 1) + 2) + 1>>]

\* Faulty variant: only the first edge is compared with the limit.
SideLengthOkFirstEdge(P, tri, limit) ==
  LET p1 == JsAt(P, tri[1] - 1)
      p2 == JsAt(P, tri[2] - 1)
      d12 == HypotSq(Sub(p2[1], p1[1]), Sub(p2[2], p1[2]))
  IN  RootLe(d12, limit)

\* the filter callback: dmax <= limit
SideLengthOk(P, tri, limit) ==
  LET p1 == JsAt(P, tri[1] - 1)
      p2 == JsAt(P, tri[2] - 1)
      p3 == JsAt(P, tri[3] - 1)
      d12 == HypotSq(Sub(p2[1], p1[1]), Sub(p2[2], p1[2]))
      d23 == HypotSq(Sub(p3[1], p2[1]), Sub(p3[2], p2[2]))
      d31 == HypotSq(Sub(p1[1], p3[1]), Sub(p1[2], p3[2]))
      dmax == MaxSq(d12, d23, d31)
  IN  RootLe(dmax, limit)

\* `triangles` is what Delaunator.from(P) returned
constrainedDelaunay(P, sideLengthLimit, tolArg, triangles) ==
  LET tol == OrDefault(tolArg, DefaultTol)
      rawTris == RawTris(triangles)
      limit == Add(sideLengthLimit, tol)
  IN  SelectSeq(rawTris, LAMBDA tri : SideLengthOk(P, tri, limit))

(***************************************************************************)
(* The morph pipeline                                                      *)
(***************************************************************************)
\* Faulty variant: the flat sheet placed in the plane y = 0.
F01PointSheetAtZero(t, p, H) ==
  LET twoPi == Mul(Num(2), Pi)
      sqrt3 == Sqrt3
      t1 == t[1]
      t2 == t[2]
      nphi == Add(t1, Div(t2, Num(2)))
      v == Mul(Mul(Div(t2, twoPi), H), Div(sqrt3, Num(2)))
  IN  IF Le(p, Zero)
      THEN <<nphi, Zero, v>>
      ELSE LET R0 == Div(One, p)
               theta == Mul(p, nphi)
               x == Mul(R0, Sin(theta))
               y == Sub(Mul(R0, Sub(One, Cos(theta))), One)
           IN  <<x, y, v>>

\* the map callback of F01_morph
F01Point(t, p, H) ==
  LET twoPi == Mul(Num(2), Pi)
      sqrt3 == Sqrt3
      t1 == t[1]
      t2 == t[2]
      nphi == Add(t1, Div(t2, Num(2)))
      v == Mul(Mul(Div(t2, twoPi), H), Div(sqrt3, Num(2)))
  IN  IF Le(p, Zero)
      THEN <<nphi, Num(-1), v>>
      ELSE LET R0 == Div(One, p)
               theta == Mul(p, nphi)
               x == Mul(R0, Sin(theta))
               y == Sub(Mul(R0, Sub(One, Cos(theta))), One)
           IN  <<x, y, v>>

\* Faulty variant: the height argument ignored.
F01_morphFixedHeight(tp, p, HArg) ==
  [i \in 1..Len(tp) |-> F01Point(tp[i], p, Mul(Num(2), Pi))]

F01_morph(tp, p, HArg) ==
  LET H == OrDefault(HArg, Mul(Num(2), Pi))
  IN  [i \in 1..Len(tp) |-> F01Point(tp[i], p, H)]

\* Faulty variant: the full twist angle at every p.
F12PointFullTwist(t, base1, p) ==
  LET t2 == t[2]
      X1 == base1[1]
      Y1 == base1[2]
      Z1 == base1[3]
      theta_full == Div(Add(t2, Pi), Num(2))
      x == Sub(Mul(X1, Cos(theta_full)), Mul(Y1, Sin(theta_full)))
      y == Add(Mul(X1, Sin(theta_full)), Mul(Y1, Cos(theta_full)))
      z == Z1
  IN  <<x, y, z>>

\* the map callback of F12_morph; base1 is base[i]
F12Point(t, base1, p) ==
  LET t2 == t[2]
      X1 == base1[1]
      Y1 == base1[2]
      Z1 == base1[3]
      theta_full == Div(Add(t2, Pi), Num(2))
      theta_p == Mul(p, theta_full)
      x == Sub(Mul(X1, Cos(theta_p)), Mul(Y1, Sin(theta_p)))
      y == Add(Mul(X1, Sin(theta_p)), Mul(Y1, Cos(theta_p)))
      z == Z1
  IN  <<x, y, z>>

F12_morph(tp, p, H) ==
  LET base == F01_morph(tp, One, H)
  IN  [i \in 1..Len(tp) |-> F12Point(tp[i], base[i], p)]

\* Faulty variant: the anchor string is compared as it is written.
ToLowerCaseAsWritten(s) == s

\* String.prototype.toLowerCase on the anchor strings of the model
ToLowerCase(s) ==
  CASE s = "Bottom" -> "bottom"
    [] s = "TOP" -> "top"
    [] s = "Center" -> "center"
    [] OTHER -> s

\* the switch on anchor.toLowerCase()
Uoffset(anchor) ==
  CASE ToLowerCase(anchor) = "bottom" -> Num(1)
    [] ToLowerCase(anchor) = "top" -> Num(-1)
    [] OTHER -> Zero

\* Faulty variant: the centerline without the sqrt3/2 factor.
F23PointNoLatticeScale(t, base2, p, R, f, uoffset, cylinderHeight) ==
  LET twoPi == Mul(Num(2), Pi)
      t2 == t[2]
      X2 == base2[1]
      Y2 == base2[2]
      u == Add(Mul(Div(t2, twoPi), cylinderHeight), uoffset)
      Rt == Div(R, p)
      Theta == Div(u, Rt)
      Cx == Mul(Rt, Sub(One, Cos(Theta)))
      Cz == Mul(Rt, Add(Zero, Sin(Theta)))
      Nx == Cos(Theta)
      Nz == Neg(Sin(Theta))
      rad_x == Mul(Nx, X2)
      rad_y == Y2
      rad_z == Mul(Nz, X2)
      r0 == One
      rShrink == Div(r0, Add(One, Mul(Sub(f, One), p)))
      x0 == Add(Cx, Mul(rShrink, rad_x))
      y0 == Mul(rShrink, rad_y)
      z0 == Sub(Add(Cz, Mul(rShrink, rad_z)),
                Mul(uoffset, Div(cylinderHeight, Num(2))))
      x == Sub(x0, p)
      z == Sub(z0, Mul(Mul(Neg(p), Pi), uoffset))
  IN  <<x, y0, z>>

\* Faulty variant: the shift of x by p left out.
F23PointNoCentering(t, base2, p, R, f, uoffset, cylinderHeight) ==
  LET twoPi == Mul(Num(2), Pi)
      t2 == t[2]
      X2 == base2[1]
      Y2 == base2[2]
      u == Add(Mul(Div(t2, twoPi), cylinderHeight), uoffset)
      Rt == Div(R, p)
      Theta == Div(u, Rt)
      Cx == Div(Mul(Mul(Rt, Sub(One, Cos(Theta))), Sqrt3), Num(2))
      Cz == Div(Mul(Mul(Rt, Add(Zero, Sin(Theta))), Sqrt3), Num(2))
      Nx == Cos(Theta)
      Nz == Neg(Sin(Theta))
      rad_x == Mul(Nx, X2)
      rad_y == Y2
      rad_z == Mul(Nz, X2)
      r0 == One
      rShrink == Div(r0, Add(One, Mul(Sub(f, One), p)))
      x0 == Add(Cx, Mul(rShrink, rad_x))
      y0 == Mul(rShrink, rad_y)
      z0 == Sub(Add(Cz, Mul(rShrink, rad_z)),
                Mul(uoffset, Div(cylinderHeight, Num(2))))
      x == x0
      z == Sub(z0, Mul(Mul(Neg(p), Pi), uoffset))
  IN  <<x, y0, z>>

\* the map callback of F23_morph for p > 0; base2 is base2[i]
F23Point(t, base2, p, R, f, uoffset, cylinderHeight) ==
  LET twoPi == Mul(Num(2), Pi)
      t2 == t[2]
      X2 == base2[1]
      Y2 == base2[2]
      u == Add(Mul(Div(t2, twoPi), cylinderHeight), uoffset)
      Rt == Div(R, p)
      Theta == Div(u, Rt)
      Cx == Div(Mul(Mul(Rt, Sub(One, Cos(Theta))), Sqrt3), Num(2))
      Cz == Div(Mul(Mul(Rt, Add(Zero, Sin(Theta))), Sqrt3), Num(2))
      Nx == Cos(Theta)
      Nz == Neg(Sin(Theta))
      rad_x == Mul(Nx, X2)
      rad_y == Y2
      rad_z == Mul(Nz, X2)
      r0 == One
      rShrink == Div(r0, Add(One, Mul(Sub(f, One), p)))
      x0 == Add(Cx, Mul(rShrink, rad_x))
      y0 == Mul(rShrink, rad_y)
      z0 == Sub(Add(Cz, Mul(rShrink, rad_z)),
                Mul(uoffset, Div(cylinderHeight, Num(2))))
      x == Sub(x0, p)
      z == Sub(z0, Mul(Mul(Neg(p), Pi), uoffset))
  IN  <<x, y0, z>>

\* Faulty variant: the base built with the default radius when p <= 0.
F23_morphDefaultBase(tp, p, RArg, fArg, anchorArg) ==
  LET R == OrDefault(RArg, One)
      f == OrDefault(fArg, Num(2))
      anchor == IF anchorArg = Undefined THEN "center" ELSE anchorArg[1]
      twoPi == Mul(Num(2), Pi)
      cylinderHeight == Mul(R, twoPi)
      base2 == F12_morph(tp, One, cylinderHeight)
  IN  IF Le(p, Zero)
      THEN F12_morph(tp, One, twoPi)
      ELSE [i \in 1..Len(tp) |->
              F23Point(tp[i], base2[i], p, R, f, Uoffset(anchor), cylinderHeight)]

F23_morph(tp, p, RArg, fArg, anchorArg) ==
  LET R == OrDefault(RArg, One)
      f == OrDefault(fArg, Num(2))
      anchor == IF anchorArg = Undefined THEN "center" ELSE anchorArg[1]
      twoPi == Mul(Num(2), Pi)
      cylinderHeight == Mul(R, twoPi)
      base2 == F12_morph(tp, One, cylinderHeight)
  IN  IF Le(p, Zero)
      THEN base2
      ELSE [i \in 1..Len(tp) |->
              F23Point(tp[i], base2[i], p, R, f, Uoffset(anchor), cylinderHeight)]

(***************************************************************************)
(* hexPhaseTile                                                            *)
(***************************************************************************)
\* Faulty variant: the rotations start at pi/6 instead of pi/6 + pi/3.
HexRotationFromZero(i) == Add(Div(Pi, Num(6)), Mul(Num(i), Div(Pi, Num(3))))

\* rotations[i], i counted from 0
HexRotation(i) == Add(Div(Pi, Num(6)), Mul(Num(i + 1), Div(Pi, Num(3))))

hexPhaseTile ==
  LET d == Div(One, Sqrt3)
  IN  [k \in 1..6 |->
         LET theta == HexRotation(k - 1)
         IN  <<Mul(d, Cos(theta)), Mul(d, Sin(theta))>>]

(***************************************************************************)
(* gridCellPdf                                                             *)
(***************************************************************************)
\* Math.abs, Math.ceil, Math.max over a non-empty set of numbers
AbsNum(x) == IF Sgn(x) < 0 THEN Neg(x) ELSE x
Ceil(x) == -Floor(Neg(x))
MaxOf(S) == CHOOSE m \in S : \A x \in S : Le(x, m)

\* nRings = Math.ceil(1.5 * maxAbs)
PdfRings(points) ==
  LET maxAbs == MaxOf({AbsNum(points[i][1]) : i \in 1..Len(points)}
                      \cup {AbsNum(points[i][2]) : i \in 1..Len(points)})
  IN  Ceil(Mul(Rat(3, 2), maxAbs))

\* A value of Z is normFactor times a sum of Math.exp terms.  The sum is
\* kept as the function exponent -> number of terms with that exponent
\* (the exponent 0 stands for exp(0) = 1), and normFactor =
\* 1/(sqrt(2*pi)*sigma) by its sigma.
\* -0.5 * (dd / sigma) ** 2 for dd = Math.hypot(x - phaseX, y - phaseY)
PdfExponent(pt, phaseX, phaseY, sigma) ==
  LET ddSq == HypotSq(Sub(pt[1], phaseX), Sub(pt[2], phaseY))
  IN  Mul(Rat(-1, 2), Div(ddSq, Mul(sigma, sigma)))

\* Faulty variant: only the centre node contributes.
PdfExponentsCentreOnly(nodes, pt, phase, sigma) ==
  {<<k, PdfExponent(pt, Add(phase[1], nodes[k][1]), Add(phase[2], nodes[k][2]), sigma)>> :
     k \in {1}}

\* the exponents the loop over nodes adds to Z[i] for the point pt, each
\* with the index of its node
PdfExponents(nodes, pt, phase, sigma) ==
  {<<k, PdfExponent(pt, Add(phase[1], nodes[k][1]), Add(phase[2], nodes[k][2]), sigma)>> :
     k \in 1..Len(nodes)}

\* Z[i] after the loop.  With sigma = 0 normFactor is Infinity and every
\* term is Infinity * exp(-Infinity) or Infinity * exp(NaN): the sum is NaN.
PdfSum(nodes, pt, phase, sigma) ==
  IF sigma = Zero THEN "NaN"
  ELSE LET exps == PdfExponents(nodes, pt, phase, sigma)
       IN  [e \in {t[2] : t \in exps} |-> Cardinality({t \in exps : t[2] = e})]

\* Faulty variant: the normalisation factor leaves sigma out.
gridCellPdfUnitNorm(points, phase, sigma, nodes) ==
  [i \in 1..Len(points) |->
     [normFactorSigma |-> One, sum |-> PdfSum(nodes, points[i], phase, sigma)]]

\* `nodes` is gridNodes(nRings)
gridCellPdf(points, phase, sigma, nodes) ==
  [i \in 1..Len(points) |->
     [normFactorSigma |-> sigma, sum |-> PdfSum(nodes, points[i], phase, sigma)]]

(***************************************************************************)
(* GridTile                                                                *)
(***************************************************************************)
\* JavaScript a && b for a boolean a: a when a is false, else b
JsTrue == <<TRUE>>
JsFalse == <<FALSE>>
JsBooleans == {JsTrue, JsFalse}
JsAnd(a, b) == IF a \in {JsFalse, Undefined} THEN a ELSE b

\* the flat 0-based index array of the face geometry
FaceIdx(tri) ==
  [n \in 1..(3 * Len(tri)) |-> tri[((n - 1) \div 3) + 1][((n - 1) % 3) + 1] - 1]

\* the three edges of triangle t of faceIdx, each as the set of its ends
FaceEdges(faceIdx, t) ==
  LET a == JsAt(faceIdx, 3 * t)
      b == JsAt(faceIdx, 3 * t + 1)
      c == JsAt(faceIdx, 3 * t + 2)
  IN  <<{a, b}, {b, c}, {c, a}>>

\* edgeCount.get(key): the number of times the edge was counted
EdgeCount(faceIdx, edge) ==
  Cardinality({<<t, e>> \in (0..((Len(faceIdx) \div 3) - 1)) \X (1..3) :
                 FaceEdges(faceIdx, t)[e] = edge})

\* the vertices on an edge counted once
BorderVerts(faceIdx) ==
  UNION {edge \in {FaceEdges(faceIdx, t)[e] :
                     t \in 0..((Len(faceIdx) \div 3) - 1), e \in 1..3} :
           EdgeCount(faceIdx, edge) = 1}

\* the partition loop from triangle t on: borderIdx takes the triangles with
\* a border vertex, interiorIdx takes every triangle
RECURSIVE PartitionFrom(_, _, _, _, _)
PartitionFrom(faceIdx, borderVerts, t, interiorIdx, borderIdx) ==
  IF 3 * t >= Len(faceIdx) THEN [interiorIdx |-> interiorIdx, borderIdx |-> borderIdx]
  ELSE LET abc == SubSeq(faceIdx, 3 * t + 1, 3 * t + 3)
       IN  PartitionFrom(faceIdx, borderVerts, t + 1, interiorIdx \o abc,
             IF abc[1] \in borderVerts \/ abc[2] \in borderVerts \/ abc[3] \in borderVerts
             THEN borderIdx \o abc ELSE borderIdx)

\* the geometry the constructor builds from tri, the triangles that
\* constrainedDelaunay(Pv, spacing) returned; transform is the last
\* function setTransform wrote the positions with
TileGeometry(tri) ==
  LET faceIdx == FaceIdx(tri)
      parts == PartitionFrom(faceIdx, BorderVerts(faceIdx), 0, <<>>, <<>>)
  IN  [faceIdx |-> faceIdx, interiorIdx |-> parts.interiorIdx,
       borderIdx |-> parts.borderIdx, transform |-> <<"none">>]

setVisibility(tile, visible) ==
  [tile EXCEPT !.interiorMeshVisible = JsAnd(visible, tile.showFaces),
               !.borderMeshVisible = JsAnd(visible, tile.showTileEdges),
               !.wireMeshVisible = JsAnd(visible, tile.showWireframe),
               !.pointsMeshVisible = JsAnd(visible, tile.showPoints),
               !.visible = visible]

setOpacity(tile, alpha) ==
  [tile EXCEPT !.faceMatOpacity = alpha,
               !.borderMatOpacity = alpha,
               !.wireMatOpacity = Mul(alpha, Rat(1, 10)),
               !.pointsMatOpacity = alpha,
               !.opacity = alpha]

\* a tile object whose meshes and materials were just created (three.js
\* creates a mesh visible and a material with opacity 1), before the show
\* flags, visible and opacity are assigned
BareTile(position) ==
  [position |-> position,
   showFaces |-> Undefined, showWireframe |-> Undefined,
   showPoints |-> Undefined, showTileEdges |-> Undefined,
   interiorMeshVisible |-> JsTrue, borderMeshVisible |-> JsTrue,
   wireMeshVisible |-> JsTrue, pointsMeshVisible |-> JsTrue,
   faceMatOpacity |-> One, borderMatOpacity |-> One,
   wireMatOpacity |-> One, pointsMatOpacity |-> One,
   visible |-> Undefined, opacity |-> Undefined]

\* the tile the constructor leaves: show flags, then setOpacity(1) and
\* setVisibility(true)
GridTile(position) ==
  setVisibility(
    setOpacity([BareTile(position) EXCEPT !.showFaces = JsTrue, !.showWireframe = JsTrue,
                                          !.showPoints = JsFalse, !.showTileEdges = JsTrue],
               One),
    JsTrue)

\* clone(): the materials are cloned with the opacity they have, the meshes
\* are new, setOpacity and setVisibility run while the clone has no show
\* flags yet, and the show flags are copied last
clone(this) ==
  LET c == [BareTile(this.position) EXCEPT
              !.faceMatOpacity = this.faceMatOpacity,
              !.borderMatOpacity = this.borderMatOpacity,
              !.wireMatOpacity = this.wireMatOpacity,
              !.pointsMatOpacity = this.pointsMatOpacity]
  IN  [setVisibility(setOpacity(c, this.opacity), this.visible) EXCEPT
         !.showFaces = this.showFaces, !.showWireframe = this.showWireframe,
         !.showPoints = this.showPoints, !.showTileEdges = this.showTileEdges]

\* GridTile.tile(template, numRings): one clone per node of gridNodes, placed
\* at the node scaled by scaleFactor
tile(template, centers, scaleFactor) ==
  [k \in 1..Len(centers) |->
     [clone(template) EXCEPT
        !.position = <<Mul(centers[k][1], scaleFactor), Zero,
                       Mul(centers[k][2], scaleFactor)>>]]

(***************************************************************************)
(* main.js: the animation                                                  *)
(***************************************************************************)
\* bounds: the rings of tiles around the central one (NTILE_RINGS is 5 in
\* main.js) and the readings of the clock followed within one stage
TileRings == 1
MaxTicks == 3

STAGES == <<"holdStart", "fade", "cylinder", "twist", "torus", "holdEnd">>
STAGE_DURATION == 3000
\* one data mode for each branch of updateColors (the control also offers
\* torus2 and torus3, which take the branch of torus1)
DataModes == {"torus1", "gridCells"}
ShapeModes == {"hexagon", "rhombus"}

\* the time between two readings of performance.now(), in ms
FrameMs == 1000

\* STAGES[stageIndex], undefined outside the array
StageAt(stageIndex) ==
  IF stageIndex \in 0..(Len(STAGES) - 1) THEN JsAt(STAGES, stageIndex) ELSE "undefined"

getStageDuration(stage) ==
  IF stage = "holdStart" \/ stage = "holdEnd" THEN 1000 ELSE STAGE_DURATION

easeInOutCubic(t) ==
  IF Lt(t, Half)
    THEN Mul(Num(4), Mul(t, Mul(t, t)))
    ELSE LET u == Add(Mul(Num(-2), t), Num(2))
         IN  Sub(One, Mul(Mul(u, Mul(u, u)), Half))

\* Math.min(dt / dur, 1)
RawT(dt, dur) == IF dt < dur THEN Rat(dt, dur) ELSE One
BaseT(reverse, rawT) == IF reverse THEN Sub(One, rawT) ELSE rawT

\* THREE.MathUtils.lerp
lerp(x, y, t) == Add(x, Mul(Sub(y, x), t))

\* the stage over as soon as it has begun (faulty: the code waits for
\* dt >= dur)
StageDoneOnceBegun(dt, dur) == dt > 0

\* if (dt >= dur)
StageDone(dt, dur) == dt >= dur

\* the geometry a freshly constructed template shares with its clones
NoTransform == [fcn |-> "none", t |-> Zero]

\* setMorph(fcn, t): centralTile.setTransform rewrites the positions of the
\* face geometry, which every tile shares
setMorph(m, fcn, t) == [m EXCEPT !.geometry.transform = [fcn |-> fcn, t |-> t]]

\* peripheralTiles.forEach(tile => tile.setVisibility(false));
\* centralTile.setVisibility(true)
HidePeripheral(m) ==
  [m EXCEPT !.peripheralTiles =
              [k \in 1..Len(m.peripheralTiles) |->
                 setVisibility(m.peripheralTiles[k], JsFalse)],
            !.centralTile = setVisibility(m.centralTile, JsTrue)]

\* the first frame of holdStart without its setMorph (faulty: the code
\* flattens the geometry there)
HoldStartBranchKeepsMorph(m) ==
  IF m.firstStep
    THEN [m EXCEPT !.centralTile = setVisibility(m.centralTile, JsTrue),
                   !.fov = Num(40)]
    ELSE m

\* stage === 'holdStart'
HoldStartBranch(m) ==
  IF m.firstStep
    THEN [setMorph([m EXCEPT !.centralTile = setVisibility(m.centralTile, JsTrue)],
                   "F01_morph", Zero)
            EXCEPT !.fov = Num(40)]
    ELSE m

\* the branch of animate() for the stage
StageBranch(m, stage, t) ==
  CASE stage = "holdStart" -> HoldStartBranch(m)
    [] stage = "fade" ->
         [setMorph([m EXCEPT !.centralTile = setVisibility(m.centralTile, JsTrue)],
                   "F01_morph", Zero)
            EXCEPT !.peripheralTiles =
                     [k \in 1..Len(m.peripheralTiles) |->
                        setVisibility(setOpacity(m.peripheralTiles[k], Sub(One, t)), JsTrue)],
                   !.fov = lerp(Num(40), Num(20), t)]
    [] stage = "cylinder" ->
         setMorph(IF m.firstStep THEN HidePeripheral(m) ELSE m, "F01_morph", t)
    [] stage = "twist" ->
         setMorph(IF m.firstStep THEN HidePeripheral(m) ELSE m, "F12_morph", t)
    [] stage = "torus" ->
         [setMorph(IF m.firstStep THEN HidePeripheral(m) ELSE m, "F23_morph", t)
            EXCEPT !.fov = lerp(Num(20), Num(10), t)]
    [] stage = "holdEnd" ->
         [setMorph(IF m.firstStep THEN HidePeripheral(m) ELSE m, "F23_morph", One)
            EXCEPT !.fov = Num(10)]
    [] OTHER -> m

\* an end stage left as it is while the direction turns (faulty: the code
\* clamps the index, so the end stage runs again)
AdvanceOrReverseWithoutReplay(m) ==
  LET turn == (m.reverse /\ m.stageIndex = 0)
                \/ (~m.reverse /\ m.stageIndex = Len(STAGES) - 1)
      back == IF turn THEN ~m.reverse ELSE m.reverse
  IN  [m EXCEPT !.stageIndex = IF back THEN m.stageIndex - 1 ELSE m.stageIndex + 1,
                !.reverse = back,
                !.elapsed = 0,
                !.firstStep = TRUE]

\* the branch taken when the stage is over: advance or reverse through the
\* stages, stageStart = now, firstStep = true
AdvanceOrReverse(m) ==
  [m EXCEPT !.stageIndex =
              IF m.reverse
                THEN (IF m.stageIndex - 1 < 0 THEN 0 ELSE m.stageIndex - 1)
                ELSE (IF m.stageIndex + 1 > Len(STAGES) - 1
                        THEN Len(STAGES) - 1 ELSE m.stageIndex + 1),
            !.reverse =
              IF m.reverse
                THEN (IF m.stageIndex - 1 < 0 THEN FALSE ELSE TRUE)
                ELSE (IF m.stageIndex + 1 > Len(STAGES) - 1 THEN TRUE ELSE FALSE),
            !.elapsed = 0,
            !.firstStep = TRUE]

\* one run of animate(), up to the render
animate(m) ==
  LET stage == StageAt(m.stageIndex)
      dur == getStageDuration(stage)
      t == easeInOutCubic(BaseT(m.reverse, RawT(m.elapsed, dur)))
      drawn == StageBranch(m, stage, t)
  IN  IF StageDone(m.elapsed, dur)
        THEN AdvanceOrReverse(drawn)
        ELSE [drawn EXCEPT !.firstStep = FALSE]

\* what that run of animate() computed
FrameOf(m) ==
  LET stage == StageAt(m.stageIndex)
      dur == getStageDuration(stage)
      rawT == RawT(m.elapsed, dur)
  IN  [stage |-> stage, rawT |-> rawT,
       t |-> easeInOutCubic(BaseT(m.reverse, rawT)),
       firstStep |-> m.firstStep, reverse |-> m.reverse,
       transition |-> StageDone(m.elapsed, dur)]
NoFrame ==
  [stage |-> "none", rawT |-> Zero, t |-> Zero,
   firstStep |-> FALSE, reverse |-> FALSE, transition |-> FALSE]

\* the tiles shown again, the direction kept (faulty: the code resets
\* reverse)
onRestartKeepsDirection(m) ==
  [m EXCEPT !.centralTile = setOpacity(setVisibility(m.centralTile, JsTrue), One),
            !.peripheralTiles =
              [k \in 1..Len(m.peripheralTiles) |->
                 setOpacity(setVisibility(m.peripheralTiles[k], JsTrue), One)],
            !.stageIndex = 0,
            !.firstStep = TRUE,
            !.elapsed = 0]

onRestart(m) ==
  [m EXCEPT !.centralTile = setOpacity(setVisibility(m.centralTile, JsTrue), One),
            !.peripheralTiles =
              [k \in 1..Len(m.peripheralTiles) |->
                 setOpacity(setVisibility(m.peripheralTiles[k], JsTrue), One)],
            !.stageIndex = 0,
            !.reverse = FALSE,
            !.firstStep = TRUE,
            !.elapsed = 0]

\* updateColors(): setColorMap writes the colours of the data mode into the
\* colour attribute of the shared face geometry
updateColors(m) == [m EXCEPT !.geometry.colors = m.dataMode]

\* new GridTile(NGRID, {position: [0, 0, 0], scale: SCALE, shape}) and
\* GridTile.tile(template, NTILE_RINGS): the tiles are the same for both
\* shapes, the geometry they share is not
NewTiles == tile(GridTile(<<Zero, Zero, Zero>>), gridNodes(TileRings), TwoPi)

\* rebuildTiles(): a new template with a new geometry, its clones at the
\* nodes of gridNodes(NTILE_RINGS); the peripheral tiles take the visibility
\* and opacity the first old peripheral tile had
rebuildTiles(m) ==
  LET peripheralTileVisibility ==
        IF m.peripheralTiles # Undefined THEN m.peripheralTiles[1].visible ELSE JsTrue
      peripheralTileOpacity ==
        IF m.peripheralTiles # Undefined THEN m.peripheralTiles[1].opacity ELSE One
      allTiles == NewTiles
  IN  updateColors(
        [m EXCEPT !.centralTile = allTiles[1],
                  !.peripheralTiles =
                    [k \in 1..(Len(allTiles) - 1) |->
                       setOpacity(
                         setVisibility([allTiles[k + 1] EXCEPT !.showWireframe = JsFalse],
                                       peripheralTileVisibility),
                         peripheralTileOpacity)],
                  !.geometry = [shape |-> m.shapeMode, transform |-> NoTransform,
                                colors |-> Undefined]])

\* the module-level state when the script has run: the declarations, then
\* rebuildTiles(); updateColors(); onRestart()
Declared ==
  [stageIndex |-> 0, reverse |-> FALSE, firstStep |-> FALSE, elapsed |-> 0,
   centralTile |-> Undefined, peripheralTiles |-> Undefined, geometry |-> Undefined,
   fov |-> Num(50), dataMode |-> "torus1", shapeMode |-> "hexagon"]
Startup == onRestart(updateColors(rebuildTiles(Declared)))

(***************************************************************************)
(* Inputs                                                                  *)
(***************************************************************************)
MaxRings == 3
MaxSubdiv == 3
CoordSpan == 4
LatticeSpan == 1
PhaseSteps == 2
MaxPts == 2
PdfSpan == 4

RingCounts == -1..MaxRings
Subdivisions == 1..MaxSubdiv

\* points (x, y) with x, y = (a + b*sqrt3)/4
WrapCoords == {Q3(a, b, 4) : a \in -CoordSpan..CoordSpan, b \in -1..1}
WrapPoints == WrapCoords \X WrapCoords

\* i*(1,0) + j*(1/2, sqrt3/2)
LatticeVector(i, j) == <<Add(Num(i), Rat(j, 2)), Q3(0, j, 2)>>
LatticeSteps == (-LatticeSpan..LatticeSpan) \X (-LatticeSpan..LatticeSpan)

E2TCoords == {Zero, One, Rat(-1, 2), Q3(0, 1, 2)}
E2TPoints == E2TCoords \X E2TCoords
E2TScalars == {Num(-1), Num(2), Half}
Combine(a, P1, b, P2) ==
  <<Add(Mul(a, P1[1]), Mul(b, P2[1])), Add(Mul(a, P1[2]), Mul(b, P2[2]))>>
E2TArrays ==
  {<<<<Zero, Zero>>, <<One, Zero>>, <<Zero, Q3(0, 1, 2)>>>>}
  \cup {<<P1, P2, Combine(a, P1, b, P2)>> :
          P1 \in E2TPoints, P2 \in E2TPoints, a \in E2TScalars, b \in E2TScalars}

\* point arrays in general position (no four points on a circle)
PointSets ==
  { <<<<Zero, Zero>>, <<One, Zero>>, <<Zero, One>>>>,
    <<<<Zero, Zero>>, <<Num(2), Zero>>, <<Zero, One>>, <<Num(3), Num(3)>>>>,
    <<<<Zero, Zero>>, <<Half, Half>>, <<Num(2), Num(2)>>>>,
    <<<<One, One>>, <<Num(-1), Zero>>, <<Zero, Rat(3, 2)>>, <<Zero, Rat(-1, 2)>>>> }
SideLimits == {One, Num(2), Rat(9, 4), Num(3)}
Tolerances == {Undefined, Zero, Half}

\* toroidal phases (k1*pi/3, k2*pi/3), row by row
PhaseList ==
  [k \in 1..((2 * PhaseSteps + 1) * (2 * PhaseSteps + 1)) |->
     <<PiQ3(((k - 1) % (2 * PhaseSteps + 1)) - PhaseSteps, 0, 3),
       PiQ3(((k - 1) \div (2 * PhaseSteps + 1)) - PhaseSteps, 0, 3)>>]
\* the point of the F01_morph tests, (pi/4, pi/2)
TestPhases == <<<<PiQ3(1, 0, 4), PiQ3(1, 0, 2)>>>>
TpArrays ==
  UNION {{SubSeq(PhaseList, i, i + n - 1) : i \in 1..(Len(PhaseList) - n + 1)} :
           n \in 1..MaxPts}
  \cup {TestPhases}
MorphParams == {Num(-1), Zero, Half, One}
Heights == {Undefined, Mul(Num(4), Pi), Num(3)}
Radii == {Undefined, Half, Num(2)}
ShrinkFactors == {Undefined, Num(3)}
Anchors == {Undefined, <<"bottom">>, <<"TOP">>, <<"left">>}

\* query points with coordinates k/2, alone or with their mirror image (y, x)
PdfCoords == {Rat(k, 2) : k \in -PdfSpan..PdfSpan}
PdfPointArrays ==
  {<<<<x, y>>>> : x \in PdfCoords, y \in PdfCoords}
  \cup {<<<<x, y>>, <<y, x>>>> : x \in PdfCoords, y \in PdfCoords}
PdfPhases == {<<Zero, Zero>>, <<Half, Zero>>}
PdfRingCounts == {PdfRings(points) : points \in PdfPointArrays}
Sigmas == {Rat(1, 10), Num(2), Zero, Num(-2)}

\* point arrays and angles of the rotate2d tests, and the hexagon GridTile
\* rotates by pi/6
RotArrays ==
  {<<<<Zero, Zero>>>>, <<<<One, Zero>>>>, <<<<Zero, One>>>>,
   <<<<One, One>>, <<Num(-1), Zero>>>>, hexPhaseTile}
RotAngles == {PiQ3(1, 0, 3), PiQ3(1, 0, 2), Pi, PiQ3(1, 0, 6)}

\* spellings of the anchor argument
AnchorSpellings ==
  {Undefined, <<"bottom">>, <<"Bottom">>, <<"top">>, <<"TOP">>, <<"center">>,
   <<"Center">>, <<"left">>}

\* What constrainedDelaunay(Pv, spacing) returns in the constructor, as
\* 1-based index triples.  The rhombus grid of buildRhombusMeshGrid(N) has
\* point j*(N+1) + i + 1 at column i of row j and every cell is split along
\* its short diagonal; the hexagon of gridNodes(1) is the fan of six
\* triangles around the centre, point 1.
RhombusTriangles(N) ==
  [n \in 1..(2 * N * N) |->
     LET cell == (n - 1) \div 2
         i == cell % N
         j == cell \div N
         p00 == j * (N + 1) + i + 1
         p10 == p00 + 1
         p01 == p00 + N + 1
         p11 == p01 + 1
     IN  IF n % 2 = 1 THEN <<p00, p10, p01>> ELSE <<p10, p11, p01>>]
HexagonTriangles == [k \in 1..6 |-> <<1, k + 1, (k % 6) + 2>>]

\* shape and nGrid of the tiles built; a hexagon tile uses
\* gridNodes(ceil(nGrid/2)), which is gridNodes(1) for nGrid = 1 and 2
TileShapes ==
  {<<"rhombus", N>> : N \in Subdivisions} \cup {<<"hexagon", N>> : N \in 1..2}
TileTriangles(shape, nGrid) ==
  IF shape = "hexagon" THEN HexagonTriangles ELSE RhombusTriangles(nGrid)
Opacities == {One, Half, Zero}

\* The sines and cosines a call takes are at angles the tables cover.
F01InTables(tp, p) ==
  \A i \in 1..Len(tp) :
    IF Le(p, Zero) THEN TRUE
    ELSE IsAngle(Mul(p, Add(tp[i][1], Div(tp[i][2], Num(2)))))
F12InTables(tp, p) ==
  \A i \in 1..Len(tp) : IsAngle(Mul(p, Div(Add(tp[i][2], Pi), Num(2))))
F23InTables(tp, p, RArg, anchorArg) ==
  \A i \in 1..Len(tp) :
    IF Le(p, Zero) THEN TRUE
    ELSE LET R == OrDefault(RArg, One)
             anchor == IF anchorArg = Undefined THEN "center" ELSE anchorArg[1]
         IN  IsAngle(Div(Add(Mul(Div(tp[i][2], TwoPi), Mul(R, TwoPi)),
                             Uoffset(anchor)),
                         Div(R, p)))

(***************************************************************************)
(* The calls                                                               *)
(***************************************************************************)
NoCall == [fn |-> "none", args |-> <<>>, ret |-> <<>>]

Init ==
  /\ call = NoCall /\ prev = NoCall
  /\ main = Startup
  /\ frame = NoFrame
  /\ event = "restart"
  /\ restarted = TRUE

Fresh == call = NoCall

CallGridNodes ==
  /\ UNCHANGED animVars
  /\ Fresh
  /\ \E n \in RingCounts :
       call' = [fn |-> "gridNodes", args |-> [nRings |-> n], ret |-> gridNodes(n)]
  /\ prev' = NoCall

CallEuclidean2torus ==
  /\ UNCHANGED animVars
  /\ Fresh
  /\ \E pE \in E2TArrays :
       call' = [fn |-> "euclidean2torus", args |-> [pEuclidean |-> pE],
                ret |-> euclidean2torus(pE)]
  /\ prev' = NoCall

WrapCall(pt) == [fn |-> "wrapToRhombus", args |-> [pt |-> pt], ret |-> wrapToRhombus(pt)]

CallWrapToRhombus ==
  /\ UNCHANGED animVars
  /\ Fresh
  /\ \E pt \in WrapPoints : call' = WrapCall(pt)
  /\ prev' = NoCall

\* wrap the same point moved by a lattice vector
CallWrapTranslated ==
  /\ UNCHANGED animVars
  /\ call.fn = "wrapToRhombus" /\ prev = NoCall
  /\ \E s \in LatticeSteps :
       LET L == LatticeVector(s[1], s[2])
       IN  call' = WrapCall(<<Add(call.args.pt[1], L[1]), Add(call.args.pt[2], L[2])>>)
  /\ prev' = call

\* wrap the result again
CallWrapAgain ==
  /\ UNCHANGED animVars
  /\ call.fn = "wrapToRhombus" /\ prev = NoCall
  /\ call' = WrapCall(call.ret)
  /\ prev' = call

CallBuildRhombusMeshGrid ==
  /\ UNCHANGED animVars
  /\ Fresh
  /\ \E N \in Subdivisions :
       call' = [fn |-> "buildRhombusMeshGrid", args |-> [numRings |-> N],
                ret |-> buildRhombusMeshGrid(N)]
  /\ prev' = NoCall

CallConstrainedDelaunay ==
  /\ UNCHANGED animVars
  /\ Fresh
  /\ \E P \in PointSets, lim \in SideLimits, tol \in Tolerances :
       \E triangles \in DelaunatorFrom(P) :
         call' = [fn |-> "constrainedDelaunay",
                  args |-> [P |-> P, sideLengthLimit |-> lim, tol |-> tol,
                            triangles |-> triangles],
                  ret |-> constrainedDelaunay(P, lim, tol, triangles)]
  /\ prev' = NoCall

F01Call(tp, p, H) ==
  [fn |-> "F01_morph", args |-> [tp |-> tp, p |-> p, H |-> H], ret |-> F01_morph(tp, p, H)]
F12Call(tp, p, H) ==
  [fn |-> "F12_morph", args |-> [tp |-> tp, p |-> p, H |-> H], ret |-> F12_morph(tp, p, H)]

CallF01 ==
  /\ UNCHANGED animVars
  /\ Fresh
  /\ \E tp \in TpArrays, p \in MorphParams, H \in Heights :
       /\ F01InTables(tp, p)
       /\ call' = F01Call(tp, p, H)
  /\ prev' = NoCall

CallF12 ==
  /\ UNCHANGED animVars
  /\ Fresh
  /\ \E tp \in TpArrays, p \in MorphParams, H \in Heights :
       /\ F01InTables(tp, One)
       /\ F12InTables(tp, One)
       /\ F12InTables(tp, p)
       /\ call' = F12Call(tp, p, H)
  /\ prev' = NoCall

\* the finished cylinder for the same points and height
CallF01AfterF12 ==
  /\ UNCHANGED animVars
  /\ call.fn = "F12_morph" /\ prev = NoCall
  /\ call' = F01Call(call.args.tp, One, call.args.H)
  /\ prev' = call

CallF23 ==
  /\ UNCHANGED animVars
  /\ Fresh
  /\ \E tp \in TpArrays, p \in MorphParams, R \in Radii, f \in ShrinkFactors,
        anchor \in Anchors :
       /\ F01InTables(tp, One)
       /\ F12InTables(tp, One)
       /\ F23InTables(tp, p, R, anchor)
       /\ call' = [fn |-> "F23_morph",
                   args |-> [tp |-> tp, p |-> p, R |-> R, f |-> f, anchor |-> anchor],
                   ret |-> F23_morph(tp, p, R, f, anchor)]
  /\ prev' = NoCall

\* the fully twisted cylinder of height 2*pi*R for the same points
CallF12AfterF23 ==
  /\ UNCHANGED animVars
  /\ call.fn = "F23_morph" /\ prev = NoCall
  /\ call' = F12Call(call.args.tp, One,
                     Mul(Mul(Num(2), Pi), OrDefault(call.args.R, One)))
  /\ prev' = call

CallHexPhaseTile ==
  /\ UNCHANGED animVars
  /\ Fresh
  /\ call' = [fn |-> "hexPhaseTile", args |-> <<>>, ret |-> hexPhaseTile]
  /\ prev' = NoCall

\* the same points and height at another morph parameter
CallF01Bent ==
  /\ UNCHANGED animVars
  /\ call.fn = "F01_morph" /\ prev = NoCall
  /\ \E p \in MorphParams :
       /\ F01InTables(call.args.tp, p)
       /\ call' = F01Call(call.args.tp, p, call.args.H)
  /\ prev' = call

\* the same points and height at p = 0, after a call with p < 0
CallF12AtZero ==
  /\ UNCHANGED animVars
  /\ call.fn = "F12_morph" /\ prev = NoCall
  /\ Lt(call.args.p, Zero)
  /\ call' = F12Call(call.args.tp, Zero, call.args.H)
  /\ prev' = call

\* the same points, radius, shrink factor and anchor at p = 0, after a call
\* with p < 0
CallF23AtZero ==
  /\ UNCHANGED animVars
  /\ call.fn = "F23_morph" /\ prev = NoCall
  /\ Lt(call.args.p, Zero)
  /\ call' = [fn |-> "F23_morph", args |-> [call.args EXCEPT !.p = Zero],
              ret |-> F23_morph(call.args.tp, Zero, call.args.R, call.args.f,
                                call.args.anchor)]
  /\ prev' = call

\* nRings, nodes: the ring count the call computes from its points and the
\* lattice it generates
CallGridCellPdf ==
  /\ UNCHANGED animVars
  /\ Fresh
  /\ \E nRings \in PdfRingCounts :
     \E nodes \in {gridNodes(nRings)} :
     \E points \in {pts \in PdfPointArrays : PdfRings(pts) = nRings} :
     \E phase \in PdfPhases, sigma \in Sigmas :
           call' = [fn |-> "gridCellPdf",
                    args |-> [points |-> points, phase |-> phase, sigma |-> sigma],
                    ret |-> gridCellPdf(points, phase, sigma, nodes),
                    nodes |-> nodes]
  /\ prev' = NoCall

CallRotate2d ==
  /\ UNCHANGED animVars
  /\ Fresh
  /\ \E p \in RotArrays, alpha \in RotAngles :
       call' = [fn |-> "rotate2d", args |-> [p |-> p, alpha |-> alpha],
                ret |-> rotate2d(p, alpha)]
  /\ prev' = NoCall

\* what the function of the call c returns for the arguments of c
Invoke(c) ==
  CASE c.fn = "rotate2d" -> rotate2d(c.args.p, c.args.alpha)
    [] c.fn = "gridNodes" -> gridNodes(c.args.nRings)
    [] c.fn = "hexPhaseTile" -> hexPhaseTile
    [] c.fn = "euclidean2torus" -> euclidean2torus(c.args.pEuclidean)
    [] c.fn = "wrapToRhombus" -> wrapToRhombus(c.args.pt)
    [] c.fn = "buildRhombusMeshGrid" -> buildRhombusMeshGrid(c.args.numRings)
    [] c.fn = "gridCellPdf" ->
         gridCellPdf(c.args.points, c.args.phase, c.args.sigma,
                     gridNodes(PdfRings(c.args.points)))
    [] c.fn = "constrainedDelaunay" ->
         constrainedDelaunay(c.args.P, c.args.sideLengthLimit, c.args.tol,
                             c.args.triangles)
    [] c.fn = "GridTile" ->
         [geometry |-> TileGeometry(c.args.tri), tile |-> GridTile(<<Zero, Zero, Zero>>)]
    [] c.fn = "F01_morph" -> F01_morph(c.args.tp, c.args.p, c.args.H)
    [] c.fn = "F12_morph" -> F12_morph(c.args.tp, c.args.p, c.args.H)
    [] c.fn = "F23_morph" ->
         F23_morph(c.args.tp, c.args.p, c.args.R, c.args.f, c.args.anchor)

\* the calls a caller repeats: any call of the functions without options,
\* the morphs with their optional arguments left to the defaults, and
\* gridCellPdf at one query point
Repeatable(c) ==
  CASE c.fn \in {"F01_morph", "F12_morph"} -> c.args.H = Undefined
    [] c.fn = "F23_morph" ->
         c.args.R = Undefined /\ c.args.f = Undefined /\ c.args.anchor = Undefined
    [] c.fn = "gridCellPdf" -> Len(c.args.points) = 1
    [] OTHER -> TRUE

\* the same function called again with the same arguments
CallRepeated ==
  /\ UNCHANGED animVars
  /\ call # NoCall /\ prev = NoCall
  /\ Repeatable(call)
  /\ call' = [call EXCEPT !.ret = Invoke(call)]
  /\ prev' = call

\* the same point, parameter p > 0 and default radius and shrink factor with
\* the anchor spelled another way
CallF23Respelled ==
  /\ UNCHANGED animVars
  /\ call.fn = "F23_morph" /\ prev = NoCall
  /\ Lt(Zero, call.args.p)
  /\ Len(call.args.tp) = 1
  /\ call.args.R = Undefined /\ call.args.f = Undefined
  /\ \E anchor \in AnchorSpellings :
       /\ F23InTables(call.args.tp, call.args.p, Undefined, anchor)
       /\ call' = [fn |-> "F23_morph", args |-> [call.args EXCEPT !.anchor = anchor],
                   ret |-> F23_morph(call.args.tp, call.args.p, Undefined, Undefined,
                                     anchor)]
  /\ prev' = call

\* new GridTile(nGrid, {shape}); tri is what its constrainedDelaunay call
\* returned
ConstructGridTile ==
  /\ UNCHANGED animVars
  /\ Fresh
  /\ \E sn \in TileShapes :
       LET tri == TileTriangles(sn[1], sn[2])
       IN  call' = [fn |-> "GridTile",
                    args |-> [nGrid |-> sn[2], shape |-> sn[1], tri |-> tri],
                    ret |-> [geometry |-> TileGeometry(tri),
                             tile |-> GridTile(<<Zero, Zero, Zero>>)]]
  /\ prev' = NoCall

\* clone() of the constructed tile after its owner set showWireframe,
\* visibility and opacity, as rebuildTiles does with the tiles it makes
CallClone ==
  /\ UNCHANGED animVars
  /\ call.fn = "GridTile" /\ prev = NoCall
  /\ \E showWireframe \in JsBooleans, visible \in JsBooleans, alpha \in Opacities :
       LET source == setOpacity(
                       setVisibility([call.ret.tile EXCEPT !.showWireframe = showWireframe],
                                     visible),
                       alpha)
       IN  call' = [fn |-> "clone", args |-> [this |-> source], ret |-> clone(source)]
  /\ prev' = call

\* the caller drops the results
Return ==
  /\ UNCHANGED animVars
  /\ call # NoCall
  /\ call' = NoCall
  /\ prev' = NoCall

Next ==
  \/ CallHexPhaseTile
  \/ ConstructGridTile
  \/ CallClone
  \/ CallGridNodes
  \/ CallEuclidean2torus
  \/ CallWrapToRhombus
  \/ CallWrapTranslated
  \/ CallWrapAgain
  \/ CallBuildRhombusMeshGrid
  \/ CallConstrainedDelaunay
  \/ CallF01
  \/ CallF12
  \/ CallF01AfterF12
  \/ CallGridCellPdf
  \/ CallF23
  \/ CallF12AfterF23
  \/ CallF01Bent
  \/ CallF12AtZero
  \/ CallF23AtZero
  \/ CallRotate2d
  \/ CallRepeated
  \/ CallF23Respelled
  \/ Return

Spec == Init /\ [][Next]_vars

(***************************************************************************)
(* The animation: frames, the clock, the Restart button, the GUI           *)
(***************************************************************************)
\* requestAnimationFrame runs animate(), which renders the scene it leaves
Animate ==
  /\ main' = animate(main)
  /\ frame' = FrameOf(main)
  /\ event' = "frame"
  /\ restarted' = FALSE
  /\ UNCHANGED callVars

\* performance.now() - stageStart grows
Tick ==
  /\ main.elapsed < MaxTicks * FrameMs
  /\ main' = [main EXCEPT !.elapsed = main.elapsed + FrameMs]
  /\ UNCHANGED <<frame, event, restarted>>
  /\ UNCHANGED callVars

\* a click on the Restart button
Restart ==
  /\ main' = onRestart(main)
  /\ event' = "restart"
  /\ restarted' = TRUE
  /\ UNCHANGED frame
  /\ UNCHANGED callVars

\* the Data control changes
ChangeData ==
  /\ \E v \in DataModes \ {main.dataMode} :
       main' = updateColors([main EXCEPT !.dataMode = v])
  /\ event' = "data"
  /\ UNCHANGED <<frame, restarted>>
  /\ UNCHANGED callVars

\* the Shape control changes
ChangeShape ==
  /\ \E v \in ShapeModes \ {main.shapeMode} :
       main' = rebuildTiles([main EXCEPT !.shapeMode = v])
  /\ event' = "shape"
  /\ UNCHANGED <<frame, restarted>>
  /\ UNCHANGED callVars

AnimNext ==
  \/ Animate
  \/ Tick
  \/ Restart
  \/ ChangeData
  \/ ChangeShape

AnimSpec == Init /\ [][AnimNext]_vars

\* The clock keeps running, and the browser keeps calling animate(), which
\* re-arms requestAnimationFrame at its end: frames that compute something
\* new keep coming.
AnimLive == AnimSpec /\ WF_vars(Tick) /\ []<><<Animate>>_vars

(***************************************************************************)
(* Properties                                                              *)
(***************************************************************************)
\* C1: whenever F12_morph was called with p = 0 and F01_morph is then called
\* on the same points with p = 1 and the same H, the two calls return the
\* same 3D points.
C1_TwistStartsFromCylinder ==
  (/\ call.fn = "F01_morph" /\ prev.fn = "F12_morph"
   /\ prev.args.p = Zero /\ call.args.p = One
   /\ call.args.tp = prev.args.tp /\ call.args.H = prev.args.H)
  => call.ret = prev.ret

C1_Witness ==
  /\ call.fn = "F01_morph" /\ prev.fn = "F12_morph"
  /\ prev.args.p = Zero /\ call.args.p = One
  /\ prev.args.tp = <<<<PiQ3(1, 0, 3), PiQ3(-1, 0, 3)>>, <<PiQ3(2, 0, 3), PiQ3(-1, 0, 3)>>>>
  /\ prev.args.H = Num(3) /\ call.args.H = Num(3)
  /\ prev.ret = call.ret
  /\ call.ret[1] = <<Half, Q3(0, -1, 2), Q3(0, -1, 4)>>

\* C2: whenever F23_morph was called with p = 0 (any R, f and anchor) and
\* F12_morph is then called on the same points with p = 1 and H = 2*pi*R,
\* the two calls return the same points.
C2_BendStartsFromTwistedCylinder ==
  (/\ call.fn = "F12_morph" /\ prev.fn = "F23_morph"
   /\ prev.args.p = Zero /\ call.args.p = One
   /\ call.args.tp = prev.args.tp
   /\ call.args.H = Mul(TwoPi, IF prev.args.R = Undefined THEN One ELSE prev.args.R))
  => call.ret = prev.ret

C2_Witness ==
  /\ call.fn = "F12_morph" /\ prev.fn = "F23_morph"
  /\ prev.args.p = Zero /\ call.args.p = One
  /\ prev.args.R = Num(2) /\ prev.args.f = Num(3) /\ prev.args.anchor = <<"TOP">>
  /\ prev.args.tp = <<<<Zero, PiQ3(1, 0, 3)>>>>
  /\ call.args.H = PiQ3(4, 0, 1)
  /\ call.ret = prev.ret
  /\ call.ret[1][3] = PiQ3(0, 1, 3)

\* C3: for n >= 0, gridNodes(n) returns 1 + 3n(n+1) points, the first of
\* them (0,0); gridNodes(0) returns the centre point alone.
C3_GridNodeCount ==
  (call.fn = "gridNodes" /\ call.args.nRings >= 0)
  => /\ Len(call.ret) = 1 + 3 * call.args.nRings * (call.args.nRings + 1)
     /\ call.ret[1] = <<Zero, Zero>>
     /\ call.args.nRings = 0 => call.ret = <<<<Zero, Zero>>>>

C3_Witness ==
  /\ call.fn = "gridNodes" /\ call.args.nRings = 2
  /\ Len(call.ret) = 19
  /\ call.ret[1] = <<Zero, Zero>>
  /\ call.ret[8] = <<Num(2), Zero>>

\* C4: when wrapToRhombus is called on p and then on p + L, with
\* L = i*(1,0) + j*(1/2, sqrt3/2) for integers i and j, both calls return
\* the same point.
C4_WrapLatticeInvariant ==
  (/\ call.fn = "wrapToRhombus" /\ prev.fn = "wrapToRhombus"
   /\ \E s \in LatticeSteps :
        /\ call.args.pt[1] = Add(prev.args.pt[1], Add(Num(s[1]), Rat(s[2], 2)))
        /\ call.args.pt[2] = Add(prev.args.pt[2], Q3(0, s[2], 2)))
  => call.ret = prev.ret

C4_Witness ==
  /\ call.fn = "wrapToRhombus" /\ prev.fn = "wrapToRhombus"
  /\ prev.args.pt = <<Rat(-1, 4), Rat(-1, 4)>>
  /\ call.args.pt = <<Rat(-3, 4), Q3(-1, 2, 4)>>
  /\ call.ret = prev.ret
  /\ call.ret = <<Rat(5, 4), Q3(-1, 2, 4)>>

\* C5: when wrapToRhombus is called on the point an earlier call of it
\* returned, it returns that point unchanged.
C5_WrapIdempotent ==
  (/\ call.fn = "wrapToRhombus" /\ prev.fn = "wrapToRhombus"
   /\ call.args.pt = prev.ret)
  => call.ret = call.args.pt

C5_Witness ==
  /\ call.fn = "wrapToRhombus" /\ prev.fn = "wrapToRhombus"
  /\ prev.args.pt = <<Rat(-1, 4), Q3(0, -1, 4)>>
  /\ prev.ret # prev.args.pt
  /\ call.args.pt = prev.ret
  /\ call.ret = prev.ret

\* C6: every point (xW, yW) wrapToRhombus returns has 0 <= yW < sqrt3/2
\* and 0 <= xW - yW/sqrt3 < 1.
C6_WrapInRhombus ==
  call.fn = "wrapToRhombus"
  => LET xW == call.ret[1]
         yW == call.ret[2]
         sheared == Sub(xW, Div(yW, Sqrt3))
     IN  /\ Le(Zero, yW) /\ Lt(yW, Q3(0, 1, 2))
         /\ Le(Zero, sheared) /\ Lt(sheared, One)

C6_Witness ==
  /\ call.fn = "wrapToRhombus" /\ prev = NoCall
  /\ call.args.pt = <<Q3(-4, -1, 4), Q3(-3, -1, 4)>>
  /\ Lt(call.args.pt[1], Zero) /\ Lt(call.args.pt[2], Zero)
  /\ Le(Zero, call.ret[2]) /\ Lt(call.ret[2], Q3(0, 1, 2))
  /\ call.ret # call.args.pt

\* C7: euclidean2torus maps each (x, y) to 2*pi*(t1, t2, t3) with
\* t1 = x - y/sqrt3, t2 = 2y/sqrt3, t3 = -(t1 + t2); the three phases sum to
\* zero and are not reduced modulo 2*pi; (0,0), (1,0), (0, sqrt3/2) give
\* (0,0,0), (2pi, 0, -2pi), (-pi, 2pi, -pi).
C7_PhaseFormula ==
  call.fn = "euclidean2torus"
  => /\ Len(call.ret) = Len(call.args.pEuclidean)
     /\ \A i \in 1..Len(call.ret) :
          LET x == call.args.pEuclidean[i][1]
              y == call.args.pEuclidean[i][2]
              t1 == Sub(x, Div(y, Sqrt3))
              t2 == Div(Mul(Num(2), y), Sqrt3)
              t3 == Neg(Add(t1, t2))
          IN  /\ call.ret[i] = <<Mul(TwoPi, t1), Mul(TwoPi, t2), Mul(TwoPi, t3)>>
              /\ Add(Add(call.ret[i][1], call.ret[i][2]), call.ret[i][3]) = Zero
     /\ call.args.pEuclidean = <<<<Zero, Zero>>, <<One, Zero>>, <<Zero, Q3(0, 1, 2)>>>>
          => call.ret = <<<<Zero, Zero, Zero>>,
                          <<PiQ3(2, 0, 1), Zero, PiQ3(-2, 0, 1)>>,
                          <<PiQ3(-1, 0, 1), PiQ3(2, 0, 1), PiQ3(-1, 0, 1)>>>>

C7_Witness ==
  /\ call.fn = "euclidean2torus"
  /\ call.args.pEuclidean = <<<<Zero, Zero>>, <<One, Zero>>, <<Zero, Q3(0, 1, 2)>>>>
  /\ call.ret[2] = <<PiQ3(2, 0, 1), Zero, PiQ3(-2, 0, 1)>>
  /\ call.ret[3] = <<PiQ3(-1, 0, 1), PiQ3(2, 0, 1), PiQ3(-1, 0, 1)>>

\* C8: when euclidean2torus is given P1, P2 and a*P1 + b*P2, the t1 and t2
\* of the third result are a times those of the first plus b times those of
\* the second.
C8_PhaseLinear ==
  (call.fn = "euclidean2torus" /\ Len(call.args.pEuclidean) = 3)
  => \A a \in E2TScalars, b \in E2TScalars :
       LET pE == call.args.pEuclidean
       IN  (/\ pE[3][1] = Add(Mul(a, pE[1][1]), Mul(b, pE[2][1]))
            /\ pE[3][2] = Add(Mul(a, pE[1][2]), Mul(b, pE[2][2])))
           => \A c \in 1..2 :
                call.ret[3][c] = Add(Mul(a, call.ret[1][c]), Mul(b, call.ret[2][c]))

C8_Witness ==
  /\ call.fn = "euclidean2torus"
  /\ call.args.pEuclidean =
       <<<<One, Q3(0, 1, 2)>>, <<Rat(-1, 2), One>>, <<Rat(7, 4), Q3(1, 2, 2)>>>>
  /\ call.ret[1][1] # Zero /\ call.ret[2][1] # Zero
  /\ \A c \in 1..2 :
       call.ret[3][c] = Add(Mul(Num(2), call.ret[1][c]), Mul(Half, call.ret[2][c]))

\* C9: constrainedDelaunay returns the triangles of the raw triangulation,
\* in the triangulator's order and as 1-based index triples into P, keeping
\* a triangle exactly when none of its three edges is longer than
\* limit + tol; for (0,0), (1,0), (0,1) limit 2 keeps the one triangle and
\* limit 1 keeps none.
C9_KeptTriangles ==
  call.fn = "constrainedDelaunay"
  => LET P == call.args.P
         tri == call.args.triangles
         limit == Add(call.args.sideLengthLimit,
                      IF call.args.tol = Undefined THEN DefaultTol ELSE call.args.tol)
         raw == [k \in 1..(Len(tri) \div 3) |->
                   <<tri[3 * k - 2] + 1, tri[3 * k - 1] + 1, tri[3 * k] + 1>>]
         EdgeWithin(i, j) ==
           RootLe(HypotSq(Sub(P[i][1], P[j][1]), Sub(P[i][2], P[j][2])), limit)
         Kept(t) ==
           EdgeWithin(t[1], t[2]) /\ EdgeWithin(t[2], t[3]) /\ EdgeWithin(t[3], t[1])
     IN  /\ call.ret = SelectSeq(raw, Kept)
         /\ (P = <<<<Zero, Zero>>, <<One, Zero>>, <<Zero, One>>>> /\ call.args.tol = Undefined)
              => /\ call.args.sideLengthLimit = Num(2)
                      => Len(call.ret) = 1 /\ {call.ret[1][v] : v \in 1..3} = {1, 2, 3}
                 /\ call.args.sideLengthLimit = One => call.ret = <<>>

C9_Witness ==
  /\ call.fn = "constrainedDelaunay"
  /\ call.args.tol = Undefined
  /\ Len(call.args.P) = 4
  /\ Len(call.args.triangles) = 6
  /\ Len(call.ret) = 1
  /\ call.ret[1] = <<call.args.triangles[4] + 1, call.args.triangles[5] + 1,
                     call.args.triangles[6] + 1>>

\* C10: for numRings >= 1, buildRhombusMeshGrid returns (numRings+1)^2
\* phase pairs and as many Euclidean points; the point at each index is
\* (t1/2pi + t2/4pi, (sqrt3/2)*t2/2pi) for the phase pair (t1, t2) at that
\* index; the phase pairs are the grid of step 2pi/numRings in both
\* directions.
C10_MeshGridAligned ==
  (call.fn = "buildRhombusMeshGrid" /\ call.args.numRings >= 1)
  => LET N == call.args.numRings
         ph == call.ret.phaseCoords
         eu == call.ret.euclidCoords
         step == Div(TwoPi, Num(N))
     IN  /\ Len(ph) = (N + 1) * (N + 1)
         /\ Len(eu) = (N + 1) * (N + 1)
         /\ \A k \in 1..Len(ph) :
              eu[k] = <<Add(Div(ph[k][1], TwoPi), Div(ph[k][2], PiQ3(4, 0, 1))),
                        Mul(Q3(0, 1, 2), Div(ph[k][2], TwoPi))>>
         /\ \E o \in 1..Len(ph) :
              {ph[k] : k \in 1..Len(ph)} =
                {<<Add(ph[o][1], Mul(Num(i), step)), Add(ph[o][2], Mul(Num(j), step))>> :
                   i \in 0..N, j \in 0..N}
         /\ Cardinality({ph[k] : k \in 1..Len(ph)}) = (N + 1) * (N + 1)

C10_Witness ==
  /\ call.fn = "buildRhombusMeshGrid" /\ call.args.numRings = 2
  /\ Len(call.ret.phaseCoords) = 9
  /\ call.ret.phaseCoords[1] = <<PiQ3(-1, 0, 1), PiQ3(-1, 0, 1)>>
  /\ call.ret.phaseCoords[6] = <<Pi, Zero>>
  /\ call.ret.euclidCoords[6] = <<Half, Zero>>
  /\ call.ret.euclidCoords[9] = <<Rat(3, 4), Q3(0, 1, 4)>>

\* C11: every phase pair (t1, t2) buildRhombusMeshGrid returns has
\* 0 <= t1 <= 2pi and 0 <= t2 <= 2pi, the first pair being (0, 0) and the
\* last (2pi, 2pi).
C11_PhasesInZeroTwoPi ==
  call.fn = "buildRhombusMeshGrid"
  => LET ph == call.ret.phaseCoords
     IN  /\ \A k \in 1..Len(ph) : \A c \in 1..2 :
              /\ IsPiMultiple(ph[k][c])
              /\ Le(Zero, OverPi(ph[k][c]))
              /\ Le(OverPi(ph[k][c]), Num(2))
         /\ ph[1] = <<Zero, Zero>>
         /\ ph[Len(ph)] = <<TwoPi, TwoPi>>

\* C12: hexPhaseTile returns 6 points, the k-th at angle pi/6 + k*pi/3 and
\* radius 1/sqrt3: each point is at distance 1/sqrt3 from the origin and the
\* first is (0, 1/sqrt3).
C12_HexTileVertices ==
  call.fn = "hexPhaseTile"
  => /\ Len(call.ret) = 6
     /\ call.ret = <<<<Zero, Q3(0, 1, 3)>>, <<Rat(-1, 2), Q3(0, 1, 6)>>,
                     <<Rat(-1, 2), Q3(0, -1, 6)>>, <<Zero, Q3(0, -1, 3)>>,
                     <<Half, Q3(0, -1, 6)>>, <<Half, Q3(0, 1, 6)>>>>
     /\ \A k \in 1..Len(call.ret) :
          Add(Mul(call.ret[k][1], call.ret[k][1]),
              Mul(call.ret[k][2], call.ret[k][2])) = Rat(1, 3)

C12_Witness ==
  /\ call.fn = "hexPhaseTile"
  /\ Len(call.ret) = 6
  /\ call.ret[1] = <<Zero, Div(One, Sqrt3)>>

C15_NegativeParameterClamped ==
  (/\ call.fn \in {"F01_morph", "F12_morph", "F23_morph"}
   /\ prev.fn = call.fn
   /\ Lt(prev.args.p, Zero)
   /\ call.args = [prev.args EXCEPT !.p = Zero])
  => call.ret = prev.ret

C17_CenterAnchorPoint ==
  (/\ call.fn = "F23_morph" /\ call.args.p = One
   /\ call.args.tp = <<<<Zero, Zero>>>>
   /\ call.args.R = Undefined /\ call.args.f = Undefined
   /\ call.args.anchor = Undefined)
  => call.ret = <<<<Rat(-1, 2), Zero, Zero>>>>

C17_Witness ==
  /\ call.fn = "F23_morph" /\ call.args.p = One /\ prev = NoCall
  /\ call.args.tp = <<<<Zero, Zero>>>>
  /\ call.args.R = Undefined /\ call.args.f = Undefined
  /\ call.args.anchor = Undefined
  /\ call.ret[1][1] = Rat(-1, 2)

\* the corner nodes of the outermost ring: the nodes at distance nRings from
\* the centre
HexCorners(nodes, nRings) ==
  {nd \in {nodes[k] : k \in 1..Len(nodes)} :
     HypotSq(nd[1], nd[2]) = Num(nRings * nRings)}

\* pt is inside or on the convex polygon with these corners and side length
\* nRings: for every side it is not on the other side than the centre
InsideHexagon(pt, corners, nRings) ==
  \A a \in corners, b \in corners :
    HypotSq(Sub(a[1], b[1]), Sub(a[2], b[2])) = Num(nRings * nRings) /\ a # b
      => Sgn(Orient(a, b, pt)) * Sgn(Orient(a, b, <<Zero, Zero>>)) >= 0

\* C18: with phase (0,0), every query point of a gridCellPdf call lies inside
\* or on the hexagon whose corners are the six corner nodes of ring nRings =
\* ceil(1.5 * max(|x|, |y|)) of the lattice the call generated.
C18_LatticeCoversQueryPoints ==
  (call.fn = "gridCellPdf" /\ call.args.phase = <<Zero, Zero>>)
  => LET nRings == PdfRings(call.args.points)
         corners == HexCorners(call.nodes, nRings)
     IN  /\ Cardinality(corners) = IF nRings = 0 THEN 1 ELSE 6
         /\ \A i \in 1..Len(call.args.points) :
              /\ InsideHexagon(call.args.points[i], corners, nRings)
              /\ nRings = 0 => call.args.points[i] = <<Zero, Zero>>

\* (x, y) and (y, x) evaluated in the same call at phase (0,0), sigma > 0
SwappedPairAtZeroPhase ==
  /\ call.fn = "gridCellPdf" /\ call.args.phase = <<Zero, Zero>>
  /\ Len(call.args.points) = 2
  /\ call.args.points[2] = <<call.args.points[1][2], call.args.points[1][1]>>
  /\ Sgn(call.args.sigma) > 0

C20_PeakValueAtPhase ==
  (/\ call.fn = "gridCellPdf" /\ call.args.phase = <<Zero, Zero>>
   /\ call.args.points = <<<<Zero, Zero>>>>
   /\ Sgn(call.args.sigma) > 0)
  => /\ call.nodes = <<<<Zero, Zero>>>>
     /\ call.ret = <<[normFactorSigma |-> call.args.sigma, sum |-> (Zero :> 1)]>>

C20_Witness ==
  /\ call.fn = "gridCellPdf" /\ call.args.phase = <<Zero, Zero>>
  /\ call.args.points = <<<<Zero, Zero>>>>
  /\ call.args.sigma = Num(2)
  /\ Len(call.nodes) = 1
  /\ call.ret[1] = [normFactorSigma |-> Num(2), sum |-> (Zero :> 1)]

\* C21: gridNodes with a negative ring count, and gridCellPdf with
\* sigma <= 0, raise an error instead of returning a value; a call that
\* raised has no return value.
C21_InvalidArgumentsRejected ==
  (\/ call.fn = "gridNodes" /\ call.args.nRings < 0
   \/ call.fn = "gridCellPdf" /\ Sgn(call.args.sigma) <= 0)
  => "ret" \notin DOMAIN call

StatedAnchor(a) ==
  IF a = Undefined THEN "center"
  ELSE IF a[1] \in {"bottom", "Bottom", "BOTTOM"} THEN "bottom"
  ELSE IF a[1] \in {"top", "Top", "TOP"} THEN "top"
  ELSE "center"

\* two F23_morph calls with p > 0 that differ in the anchor argument only
AnchorsCompared ==
  /\ prev.fn = "F23_morph" /\ call.fn = "F23_morph"
  /\ Lt(Zero, call.args.p)
  /\ [prev.args EXCEPT !.anchor = Undefined] = [call.args EXCEPT !.anchor = Undefined]

IsInteger(x) ==
  /\ x[9] = 1
  /\ x[2] = 0 /\ x[3] = 0 /\ x[4] = 0 /\ x[5] = 0 /\ x[6] = 0 /\ x[7] = 0 /\ x[8] = 0

\* the coefficients (i, j) of d = i*(1,0) + j*(1/2, sqrt3/2)
LatticeCoefficients(d) ==
  LET j == Div(d[2], Q3(0, 1, 2))
  IN  <<Sub(d[1], Mul(j, Half)), j>>

\* C25: wrapToRhombus(p) - p is an integer combination of (1,0) and
\* (1/2, sqrt3/2).
C25_WrapCongruentToInput ==
  call.fn = "wrapToRhombus"
  => LET d == <<Sub(call.ret[1], call.args.pt[1]), Sub(call.ret[2], call.args.pt[2])>>
         ij == LatticeCoefficients(d)
     IN  IsInteger(ij[1]) /\ IsInteger(ij[2])

C25_Witness ==
  /\ call.fn = "wrapToRhombus" /\ prev = NoCall
  /\ call.args.pt = <<Q3(-4, -1, 4), Q3(-3, -1, 4)>>
  /\ LatticeCoefficients(<<Sub(call.ret[1], call.args.pt[1]),
                           Sub(call.ret[2], call.args.pt[2])>>) = <<One, Num(2)>>

\* the triangles of a flat index array, as triples
TrianglesOf(idx) == {SubSeq(idx, 3 * t + 1, 3 * t + 3) : t \in 0..((Len(idx) \div 3) - 1)}

\* v lies on an edge that exactly one triangle of tris uses
OnBorderEdge(v, tris) ==
  \E T \in tris : \E w \in {T[1], T[2], T[3]} \ {v} :
    /\ v \in {T[1], T[2], T[3]}
    /\ Cardinality({U \in tris : {v, w} \subseteq {U[1], U[2], U[3]}}) = 1

\* C24: the constructor puts a triangle in the border list when one of its
\* vertices lies on an edge used by exactly one triangle, and in the
\* interior list otherwise: every triangle is in exactly one of the lists.
C24_InteriorBorderPartition ==
  call.fn = "GridTile"
  => LET tris == TrianglesOf(call.ret.geometry.faceIdx)
         border == TrianglesOf(call.ret.geometry.borderIdx)
         interior == TrianglesOf(call.ret.geometry.interiorIdx)
     IN  \A T \in tris :
           /\ T \in border <=> \E v \in {T[1], T[2], T[3]} : OnBorderEdge(v, tris)
           /\ T \in interior <=> T \notin border

\* C30: clone() returns a tile in which each part mesh has a boolean visible
\* flag equal to source.visible AND the source's matching show flag.
C30_CloneCopiesVisibility ==
  call.fn = "clone"
  => LET source == call.args.this
         c == call.ret
         Shown(flag) == IF source.visible = JsTrue /\ flag = JsTrue THEN JsTrue ELSE JsFalse
     IN  /\ c.interiorMeshVisible = Shown(source.showFaces)
         /\ c.borderMeshVisible = Shown(source.showTileEdges)
         /\ c.wireMeshVisible = Shown(source.showWireframe)
         /\ c.pointsMeshVisible = Shown(source.showPoints)

\* every tile is shown at full opacity
AllTilesShown(m) ==
  /\ m.centralTile.visible = JsTrue /\ m.centralTile.opacity = One
  /\ m.centralTile.interiorMeshVisible = JsTrue /\ m.centralTile.faceMatOpacity = One
  /\ \A k \in 1..Len(m.peripheralTiles) :
       /\ m.peripheralTiles[k].visible = JsTrue /\ m.peripheralTiles[k].opacity = One
       /\ m.peripheralTiles[k].interiorMeshVisible = JsTrue
       /\ m.peripheralTiles[k].faceMatOpacity = One

\* C26: stageIndex is always a valid index 0..5 into STAGES, and right after
\* onRestart stageIndex = 0, reverse = false, firstStep = true and every tile
\* is visible at opacity 1.
C26_StageIndexValidAndRestartState ==
  /\ main.stageIndex \in 0..5
  /\ StageAt(main.stageIndex) \in {STAGES[i] : i \in 1..Len(STAGES)}
  /\ event = "restart"
     => /\ main.stageIndex = 0
        /\ main.reverse = FALSE
        /\ main.firstStep = TRUE
        /\ AllTilesShown(main)

\* Restart clicked while the animation ran backwards through twist, the
\* peripheral tiles hidden, on rebuilt rhombus tiles
C26_Witness ==
  /\ event = "restart"
  /\ frame.stage = "twist" /\ frame.reverse
  /\ main.shapeMode = "rhombus"
  /\ main.stageIndex = 0

\* what one frame may do to stageIndex and reverse
PingPongStep ==
  /\ main'.stageIndex - main.stageIndex \in (IF main.reverse THEN {-1, 0} ELSE {0, 1})
  /\ main'.stageIndex # main.stageIndex => frame'.transition /\ main'.reverse = main.reverse
  /\ main'.reverse # main.reverse
     <=> /\ frame'.transition
         /\ main.stageIndex = (IF main.reverse THEN 0 ELSE 5)
  /\ main'.reverse # main.reverse
     => /\ main'.stageIndex = main.stageIndex
        /\ main'.firstStep /\ main'.elapsed = 0

\* stage s has just been entered
StageEntered(s) == event = "frame" /\ main.firstStep /\ main.stageIndex = s

\* C27: in a frame stageIndex changes by at most 1, upward while reverse is
\* false and downward while it is true; reverse flips only when a stage
\* completes at index 5 (forward) or 0 (reverse), and the end stage is then
\* replayed in the new direction; with frames and time going on, every stage
\* is entered again and again unless Restart is clicked again and again.
C27_PingPong ==
  /\ [][Animate => PingPongStep]_vars
  /\ \A s \in 0..5 : []<>(StageEntered(s) \/ event = "restart")

\* back at holdStart after the way there and back: the frame that completes
\* holdStart in reverse turns the direction forward and replays holdStart
C27_Witness ==
  /\ event = "frame"
  /\ frame.stage = "holdStart" /\ frame.reverse /\ frame.transition
  /\ main.stageIndex = 0 /\ ~main.reverse /\ main.firstStep

\* the transform function of a morph stage
MorphOf(stage) ==
  CASE stage = "cylinder" -> "F01_morph"
    [] stage = "twist" -> "F12_morph"
    [] stage = "torus" -> "F23_morph"
    [] OTHER -> "none"

\* C28: a stage transition happens only in a frame whose rawT is 1; the last
\* frame of a morph stage applies the stage's endpoint (t = 1 forward, t = 0
\* in reverse) before stageIndex changes; firstStep is true in a frame
\* exactly when the previous frame made a transition or onRestart ran since.
C28_TransitionAtRawTOne ==
  /\ frame.transition => frame.rawT = One
  /\ (event = "frame" /\ frame.transition)
     => /\ frame.t = (IF frame.reverse THEN Zero ELSE One)
        /\ frame.stage \in {"cylinder", "twist", "torus"}
           => main.geometry.transform =
                [fcn |-> MorphOf(frame.stage), t |-> IF frame.reverse THEN Zero ELSE One]
        /\ frame.stage = "fade"
           => \A k \in 1..Len(main.peripheralTiles) :
                main.peripheralTiles[k].opacity = (IF frame.reverse THEN One ELSE Zero)
  /\ main.firstStep <=> (frame.transition \/ restarted)

\* the last frame of torus played backwards, later than the stage's
\* duration: F23_morph is applied with t = 0 and the stage changes
C28_Witness ==
  /\ event = "frame"
  /\ frame.stage = "torus" /\ frame.reverse /\ frame.transition
  /\ frame.rawT = One
  /\ main.geometry.transform = [fcn |-> "F23_morph", t |-> Zero]
  /\ main.stageIndex = 3 /\ main.firstStep

\* the geometry is flat
FlatGeometry(g) == g.transform \in {NoTransform, [fcn |-> "F01_morph", t |-> Zero]}

\* C29: whenever a peripheral tile is visible at render time, the last
\* transform applied to the shared geometry is F01_morph with p = 0, or none
\* at all since the rebuild.
C29_PeripheralVisibleOnlyWhenFlat ==
  (event = "frame" /\ \E k \in 1..Len(main.peripheralTiles) :
                        main.peripheralTiles[k].visible = JsTrue)
  => FlatGeometry(main.geometry)

\* the first frame of fade played backwards, on rebuilt rhombus tiles: the
\* peripheral tiles, hidden since the cylinder stage, are rendered again over
\* the geometry flattened by F01_morph with p = 0
C29_Witness ==
  /\ event = "frame"
  /\ frame.stage = "fade" /\ frame.reverse /\ frame.firstStep
  /\ main.geometry = [shape |-> "rhombus", colors |-> main.dataMode,
                      transform |-> [fcn |-> "F01_morph", t |-> Zero]]
  /\ \A k \in 1..Len(main.peripheralTiles) :
       /\ main.peripheralTiles[k].visible = JsTrue
       /\ main.peripheralTiles[k].wireMeshVisible = JsFalse

====
